---- MODULE Spec2Model ----
(***************************************************************************)
(* Model of the game-room engine of server.js: the room registry           *)
(* (gameRooms), the GameRoom class (players, bullets, match control, the   *)
(* two interval timers) and the socket handlers that drive it.             *)
(*                                                                         *)
(* Fixed point.  Lengths are kept in tenths of a world unit, velocities in *)
(* tenths of a unit per second, a bullet's life in 1/90 s (so that         *)
(* GAME_DT = 1/45 s is 2 and the initial 2.5 s is 225), headings in steps  *)
(* of 10 degrees (turnSpeed * dt = 8/45 rad = 10.19 degrees is rounded to  *)
(* one step) and cos/sin in thousandths.  Divisions truncate toward zero.  *)
(*                                                                         *)
(* A JavaScript Map is a sequence of records in insertion order.           *)
(***************************************************************************)
EXTENDS Integers, Sequences, FiniteSets, TLC

VARIABLES
  gameRooms,   \* Map roomName -> GameRoom: sequence of room records
  timers,      \* live setInterval timers per room name: [sim, cd] counts
  events,      \* what the last handler or timer callback emitted
  trace        \* history: what the last simulation tick applied / expired,
               \* what each bullet it moved met (struck), the method the last
               \* step called on a room directly, and the wall candidates the
               \* last step's constructor sampled

vars == <<gameRooms, timers, events, trace>>

----------------------------------------------------------------------------
(* Program constants *)

GAME_TICK_RATE == 45
MAP_WIDTH == 1250
MAP_HEIGHT == 650
matchDuration == 65

(* Bounds of the model *)

MaxTick == 2          \* simulation ticks (seq) a room instance may run
MaxInputSeq == 1      \* client sequence numbers 1..MaxInputSeq
MaxQueue == 1         \* inputs a player may have queued

----------------------------------------------------------------------------
(* Arithmetic helpers *)

Abs(n) == IF n < 0 THEN -n ELSE n

\* JavaScript number division followed by truncation toward zero
TruncDiv(n, d) == IF n >= 0 THEN n \div d ELSE -((-n) \div d)

Min(a, b) == IF a < b THEN a ELSE b
Max(a, b) == IF a > b THEN a ELSE b

\* tenths of a world unit
U(n) == n * 10

RECURSIVE IsqrtFrom(_, _)
IsqrtFrom(n, s) == IF (s + 1) * (s + 1) > n THEN s ELSE IsqrtFrom(n, s + 1)

\* Math.hypot, rounded down; coarse steps first to keep the recursion short
Hypot(vx, vy) ==
  LET n == vx * vx + vy * vy
      c == CHOOSE k \in 0..100 : (k * 100) * (k * 100) <= n
                                 /\ ((k + 1) * 100) * ((k + 1) * 100) > n
  IN IsqrtFrom(n, c * 100)

\* cos of a heading of h steps of 10 degrees, in thousandths
CosQ == <<1000, 985, 940, 866, 766, 643, 500, 342, 174, 0>>

Cos1000(h) ==
  LET k == h % 36
  IN IF k <= 9 THEN CosQ[k + 1]
     ELSE IF k <= 18 THEN -CosQ[18 - k + 1]
     ELSE IF k <= 27 THEN -CosQ[k - 18 + 1]
     ELSE CosQ[36 - k + 1]

Sin1000(h) == Cos1000(h + 27)

----------------------------------------------------------------------------
(* Room names: a raw name is a sequence of characters *)

IsSpace(ch) == ch = " "

RECURSIVE TrimLeft(_)
TrimLeft(s) == IF s # <<>> /\ IsSpace(Head(s)) THEN TrimLeft(Tail(s)) ELSE s

RECURSIVE TrimRight(_)
TrimRight(s) ==
  IF s # <<>> /\ IsSpace(s[Len(s)]) THEN TrimRight(SubSeq(s, 1, Len(s) - 1)) ELSE s

\* String.prototype.trim
Trim(s) == TrimRight(TrimLeft(s))

LowerChar(ch) == IF ch = "A" THEN "a" ELSE IF ch = "B" THEN "b" ELSE ch

\* String.prototype.toLowerCase
ToLowerCase(s) == [i \in 1..Len(s) |-> LowerChar(s[i])]

\* const key = room.trim().toLowerCase()
RoomKey(room) == ToLowerCase(Trim(room))

RawRooms == { <<"a">>, <<" ", "A">>, <<"B", " ">> }
Keys == { RoomKey(r) : r \in RawRooms }

Conns == { "s1", "s2", "s3" }
Names == { "Player" }

----------------------------------------------------------------------------
(* Arenas a room may be constructed with, spawn samples *)

\* a wall and a pillar of this.map, in tenths
Wall(x, y, w, h) == [x |-> U(x), y |-> U(y), w |-> U(w), h |-> U(h)]
Pillar(x, y, r) == [x |-> U(x), y |-> U(y), r |-> U(r)]

\* a map generateMap can return: eight walls that do not overlap, four long
\* horizontal and four long vertical, and six pillars
ArenaA ==
  [walls |-> << Wall(600, 300, 200, 60), Wall(300, 200, 150, 50),
               Wall(900, 100, 250, 80), Wall(850, 500, 280, 50),
               Wall(500, 400, 50, 100), Wall(250, 300, 60, 150),
               Wall(1100, 250, 80, 180), Wall(700, 450, 50, 150) >>,
   pillars |-> << Pillar(200, 500, 40), Pillar(450, 100, 50), Pillar(1000, 300, 60),
                 Pillar(600, 600, 45), Pillar(80, 350, 40), Pillar(1200, 50, 69) >>,
   width |-> U(MAP_WIDTH), height |-> U(MAP_HEIGHT)]

\* A draw of getSafeSpawn: the last point sampled and the value of tries when
\* the do-while loop was left (every earlier sample collided).
Draw(x, y, n) == [x |-> U(x), y |-> U(y), tries |-> n]

----------------------------------------------------------------------------
(* The world a handler runs in: the registry, the live timers, and what the
   handler has emitted so far *)

NoTrace == [applied |-> <<>>, expired |-> <<>>, struck |-> <<>>, call |-> <<>>,
            sampled |-> 0]

World == [rooms |-> gameRooms, timers |-> timers, events |-> <<>>, trace |-> NoTrace]

\* History: an input still queued when a match starts is stamped 1 (stale).
AgeStamps(w) ==
  [i \in 1..Len(w.rooms) |->
     IF \E j \in 1..Len(w.events) :
          w.events[j].type = "match-started" /\ w.events[j].room = w.rooms[i].name
     THEN [w.rooms[i] EXCEPT !.players =
             [k \in 1..Len(@) |->
                [@[k] EXCEPT !.inputs =
                   [n \in 1..Len(@) |-> [@[n] EXCEPT !.gen = 1]]]]]
     ELSE w.rooms[i]]

Commit(w) ==
  /\ gameRooms' = AgeStamps(w)
  /\ timers' = w.timers
  /\ events' = w.events
  /\ trace' = w.trace

\* Map.prototype.has / get on gameRooms
HasRoom(w, key) == \E i \in 1..Len(w.rooms) : w.rooms[i].name = key
RoomIdx(w, key) == CHOOSE i \in 1..Len(w.rooms) : w.rooms[i].name = key
Room(w, key) == w.rooms[RoomIdx(w, key)]

\* assignment to fields of the room object
SetRoom(w, key, rm) ==
  IF HasRoom(w, key) THEN [w EXCEPT !.rooms[RoomIdx(w, key)] = rm] ELSE w

\* Map.prototype.has / get on this.players
HasPlayer(rm, id) == \E i \in 1..Len(rm.players) : rm.players[i].id = id
PlayerIdx(rm, id) == CHOOSE i \in 1..Len(rm.players) : rm.players[i].id = id
PlayerIds(rm) == { rm.players[i].id : i \in 1..Len(rm.players) }

\* Map.prototype.delete: the other entries keep their order
RemoveAt(s, i) == SubSeq(s, 1, i - 1) \o SubSeq(s, i + 1, Len(s))

\* setInterval / clearInterval
SetInterval(w, key, kind) == [w EXCEPT !.timers[key][kind] = @ + 1]
ClearInterval(w, key, kind) == [w EXCEPT !.timers[key][kind] = Max(0, @ - 1)]

\* this.io.to(this.name).emit(event, data)
broadcast(w, key, event, data) ==
  [w EXCEPT !.events = Append(@, [type |-> event, room |-> key, data |-> data])]

\* the compact player records of players-list and game-state (positions and
\* heading, which toFixed(2) leaves unchanged at this resolution, are left out)
Compact(p) == [id |-> p.id, name |-> p.name, hp |-> p.hp, kills |-> p.kills,
               ready |-> p.ready]

broadcastPlayerList(w, key) ==
  LET rm == Room(w, key)
  IN broadcast(w, key, "players-list",
               [i \in 1..Len(rm.players) |-> Compact(rm.players[i])])

----------------------------------------------------------------------------
(* Collision and spawn *)

HitsWall(wl, x, y, radius) ==
  /\ x + radius > wl.x
  /\ x - radius < wl.x + wl.w
  /\ y + radius > wl.y
  /\ y - radius < wl.y + wl.h

\* dx * dx + dy * dy < (radius + p.r) ** 2, without leaving 32 bits
HitsPillar(pl, x, y, radius) ==
  LET dx == x - pl.x
      dy == y - pl.y
      rr == radius + pl.r
  IN /\ Abs(dx) < rr
     /\ Abs(dy) < rr
     /\ dx * dx + dy * dy < rr * rr

collidesWithObstacles(map, x, y, radius) ==
  \/ \E i \in 1..Len(map.walls) : HitsWall(map.walls[i], x, y, radius)
  \/ \E i \in 1..Len(map.pillars) : HitsPillar(map.pillars[i], x, y, radius)

\* getSafeSpawn returns draw d: the loop ends at a sample that does not
\* collide, or at the sample that made tries exceed 1000
getSafeSpawn(map, d) ==
  /\ d.x >= 0 /\ d.x < map.width
  /\ d.y >= 0 /\ d.y < map.height
  /\ d.tries >= 1 /\ d.tries <= 1001
  /\ (collidesWithObstacles(map, d.x, d.y, U(20)) => d.tries > 1000)

----------------------------------------------------------------------------
(* class GameRoom *)

\* constructor(name, io): the room is entered in gameRooms by the caller
NewGameRoom(key, map) ==
  [name |-> key,
   players |-> <<>>,
   bullets |-> <<>>,
   seq |-> 0,
   map |-> map,
   timeLeft |-> matchDuration,
   matchRunning |-> FALSE,
   timerInterval |-> FALSE,      \* the countdown handle is set (not null)
   cdFired |-> 0]                \* history: countdown callbacks of this match

addPlayer(w, key, id, name, d, a) ==
  LET rm == Room(w, key)
      prev == HasPlayer(rm, id)
      kills == IF prev THEN rm.players[PlayerIdx(rm, id)].kills ELSE 0
      p == [id |-> id, name |-> name, x |-> d.x, y |-> d.y, a |-> a,
            vx |-> 0, vy |-> 0, hp |-> 100, kills |-> kills,
            inputs |-> <<>>, lastInputSeq |-> 0, ready |-> FALSE]
      ps == IF prev THEN [rm.players EXCEPT ![PlayerIdx(rm, id)] = p]
            ELSE Append(rm.players, p)
  IN broadcastPlayerList(SetRoom(w, key, [rm EXCEPT !.players = ps]), key)

\* mutant of stopTimer: the handle is dropped without clearInterval
stopTimer_Leak(w, key) ==
  LET rm == Room(w, key)
  IN IF rm.timerInterval
     THEN SetRoom(w, key, [rm EXCEPT !.timerInterval = FALSE])
     ELSE w

stopTimer(w, key) ==
  LET rm == Room(w, key)
  IN IF rm.timerInterval
     THEN SetRoom(ClearInterval(w, key, "cd"), key, [rm EXCEPT !.timerInterval = FALSE])
     ELSE w

\* mutant of ResetPlayer: p.inputs = [] is forgotten
ResetPlayer_KeepInputs(p, d) ==
  [p EXCEPT !.hp = 100, !.vx = 0, !.vy = 0, !.x = d.x, !.y = d.y, !.kills = 0,
            !.lastInputSeq = 0, !.ready = FALSE]

\* the body of the loop of startMatch over this.players.values()
ResetPlayer(p, d) ==
  [p EXCEPT !.hp = 100, !.vx = 0, !.vy = 0, !.x = d.x, !.y = d.y, !.kills = 0,
            !.inputs = <<>>, !.lastInputSeq = 0, !.ready = FALSE]

\* mutant of startMatch: the early return is forgotten
startMatch_Again(w, key, sp) ==
  LET rm == Room(w, key)
      ps == [i \in 1..Len(rm.players) |->
               ResetPlayer(rm.players[i], sp[rm.players[i].id])]
      rm1 == [rm EXCEPT !.players = ps, !.bullets = <<>>,
                        !.timeLeft = matchDuration, !.matchRunning = TRUE,
                        !.cdFired = 0]
      w1 == stopTimer(SetRoom(w, key, rm1), key)
      w2 == SetRoom(SetInterval(w1, key, "cd"), key,
                    [Room(w1, key) EXCEPT !.timerInterval = TRUE])
      w3 == broadcast(w2, key, "match-started", [matchDuration |-> matchDuration])
  IN broadcastPlayerList(w3, key)

\* mutant of startMatch: this.bullets.clear() is forgotten
startMatch_KeepBullets(w, key, sp) ==
  LET rm == Room(w, key)
  IN IF rm.matchRunning THEN w
     ELSE
       LET ps == [i \in 1..Len(rm.players) |->
                    ResetPlayer(rm.players[i], sp[rm.players[i].id])]
           rm1 == [rm EXCEPT !.players = ps,
                             !.timeLeft = matchDuration, !.matchRunning = TRUE,
                             !.cdFired = 0]
           w1 == stopTimer(SetRoom(w, key, rm1), key)
           w2 == SetRoom(SetInterval(w1, key, "cd"), key,
                         [Room(w1, key) EXCEPT !.timerInterval = TRUE])
           w3 == broadcast(w2, key, "match-started", [matchDuration |-> matchDuration])
       IN broadcastPlayerList(w3, key)

\* sp: the draw getSafeSpawn returns for each player
startMatch(w, key, sp) ==
  LET rm == Room(w, key)
  IN IF rm.matchRunning THEN w
     ELSE
       LET ps == [i \in 1..Len(rm.players) |->
                    ResetPlayer(rm.players[i], sp[rm.players[i].id])]
           rm1 == [rm EXCEPT !.players = ps, !.bullets = <<>>,
                             !.timeLeft = matchDuration, !.matchRunning = TRUE,
                             !.cdFired = 0]
           w1 == stopTimer(SetRoom(w, key, rm1), key)
           w2 == SetRoom(SetInterval(w1, key, "cd"), key,
                         [Room(w1, key) EXCEPT !.timerInterval = TRUE])
           w3 == broadcast(w2, key, "match-started", [matchDuration |-> matchDuration])
       IN broadcastPlayerList(w3, key)

\* Array.prototype.sort((a, b) => b.kills - a.kills), which is stable
RECURSIVE InsertByKills(_, _)
InsertByKills(sorted, r) ==
  IF sorted = <<>> THEN <<r>>
  ELSE IF Head(sorted).kills >= r.kills
       THEN <<Head(sorted)>> \o InsertByKills(Tail(sorted), r)
       ELSE <<r>> \o sorted

RECURSIVE SortByKills(_)
SortByKills(s) ==
  IF s = <<>> THEN <<>>
  ELSE InsertByKills(SortByKills(SubSeq(s, 1, Len(s) - 1)), s[Len(s)])

Rankings(rm) ==
  SortByKills([i \in 1..Len(rm.players) |->
                 [id |-> rm.players[i].id, name |-> rm.players[i].name,
                  kills |-> rm.players[i].kills]])

\* mutant of Winner: the all-zero test is forgotten
Winner_NoZero(rankings) ==
  IF Len(rankings) = 0 THEN <<>>
  ELSE
    LET topKills == rankings[1].kills
        topCount == Cardinality({ i \in 1..Len(rankings) : rankings[i].kills = topKills })
    IN IF topCount > 1
       THEN << [id |-> "null", name |-> "Draw", kills |-> topKills] >>
       ELSE << rankings[1] >>

\* mutant of Winner: a draw takes three players at the top
Winner_Three(rankings) ==
  IF Len(rankings) = 0 THEN <<>>
  ELSE
    LET topKills == rankings[1].kills
        allZero == \A i \in 1..Len(rankings) : rankings[i].kills = 0
        topCount == Cardinality({ i \in 1..Len(rankings) : rankings[i].kills = topKills })
    IN IF allZero THEN <<>>
       ELSE IF topCount > 2
            THEN << [id |-> "null", name |-> "Draw", kills |-> topKills] >>
            ELSE << rankings[1] >>

\* winner: <<>> is null, <<r>> is the record r
Winner(rankings) ==
  IF Len(rankings) = 0 THEN <<>>
  ELSE
    LET topKills == rankings[1].kills
        allZero == \A i \in 1..Len(rankings) : rankings[i].kills = 0
        topCount == Cardinality({ i \in 1..Len(rankings) : rankings[i].kills = topKills })
    IN IF allZero THEN <<>>
       ELSE IF topCount > 1
            THEN << [id |-> "null", name |-> "Draw", kills |-> topKills] >>
            ELSE << rankings[1] >>

\* mutant of endMatch: the ready flags are not cleared
endMatch_KeepReady(w, key) ==
  LET rm == Room(w, key)
  IN IF ~rm.matchRunning THEN w
     ELSE
       LET w1 == stopTimer(SetRoom(w, key, [rm EXCEPT !.matchRunning = FALSE]), key)
           rm1 == Room(w1, key)
           rankings == Rankings(rm1)
           winner == Winner(rankings)
           w3 == broadcast(w1, key, "match-ended",
                           [rankings |-> rankings, winner |-> winner])
       IN broadcastPlayerList(w3, key)

endMatch(w, key) ==
  LET rm == Room(w, key)
  IN IF ~rm.matchRunning THEN w
     ELSE
       LET w1 == stopTimer(SetRoom(w, key, [rm EXCEPT !.matchRunning = FALSE]), key)
           rm1 == Room(w1, key)
           rankings == Rankings(rm1)
           winner == Winner(rankings)
           ps == [i \in 1..Len(rm1.players) |-> [rm1.players[i] EXCEPT !.ready = FALSE]]
           w2 == SetRoom(w1, key, [rm1 EXCEPT !.players = ps])
           w3 == broadcast(w2, key, "match-ended",
                           [rankings |-> rankings, winner |-> winner])
       IN broadcastPlayerList(w3, key)

\* mutant of updateTimer: the match is ended only below 0
updateTimer_Late(w, key) ==
  LET rm == Room(w, key)
  IN IF ~rm.matchRunning THEN w
     ELSE
       LET rm1 == [rm EXCEPT !.timeLeft = @ - 1, !.cdFired = @ + 1]
           w1 == broadcast(SetRoom(w, key, rm1), key, "timer-update", rm1.timeLeft)
       IN IF rm1.timeLeft < 0 THEN endMatch(w1, key) ELSE w1

updateTimer(w, key) ==
  LET rm == Room(w, key)
  IN IF ~rm.matchRunning THEN w
     ELSE
       LET rm1 == [rm EXCEPT !.timeLeft = @ - 1, !.cdFired = @ + 1]
           w1 == broadcast(SetRoom(w, key, rm1), key, "timer-update", rm1.timeLeft)
       IN IF rm1.timeLeft <= 0 THEN endMatch(w1, key) ELSE w1

\* mutant of AllReady: some player instead of every player
AllReady_Some(rm) == \E i \in 1..Len(rm.players) : rm.players[i].ready

AllReady(rm) == \A i \in 1..Len(rm.players) : rm.players[i].ready

\* gameRooms.delete(this.name)
DeleteRoom(w, key) == [w EXCEPT !.rooms = RemoveAt(@, RoomIdx(w, key))]

\* mutant of removePlayer: the countdown timer of an emptied room is not stopped
removePlayer_Leak(w, key, socketId, sp) ==
  LET rm == Room(w, key)
  IN IF ~HasPlayer(rm, socketId) THEN w
     ELSE
       LET rm1 == [rm EXCEPT !.players = RemoveAt(@, PlayerIdx(rm, socketId))]
           w1 == broadcast(SetRoom(w, key, rm1), key, "player-left", socketId)
           w2 == broadcastPlayerList(w1, key)
       IN IF Len(rm1.players) = 0
          THEN DeleteRoom(ClearInterval(w2, key, "sim"), key)
          ELSE IF AllReady(rm1) /\ ~rm1.matchRunning
               THEN startMatch(w2, key, sp)
               ELSE w2

\* mutant of removePlayer: the result of players.delete is not looked at
removePlayer_Blind(w, key, socketId, sp) ==
  LET rm == Room(w, key)
      rm1 == IF HasPlayer(rm, socketId)
             THEN [rm EXCEPT !.players = RemoveAt(@, PlayerIdx(rm, socketId))]
             ELSE rm
      w1 == broadcast(SetRoom(w, key, rm1), key, "player-left", socketId)
      w2 == broadcastPlayerList(w1, key)
  IN IF Len(rm1.players) = 0
     THEN DeleteRoom(stopTimer(ClearInterval(w2, key, "sim"), key), key)
     ELSE IF AllReady(rm1) /\ ~rm1.matchRunning
          THEN startMatch(w2, key, sp)
          ELSE w2

removePlayer(w, key, socketId, sp) ==
  LET rm == Room(w, key)
  IN IF ~HasPlayer(rm, socketId) THEN w
     ELSE
       LET rm1 == [rm EXCEPT !.players = RemoveAt(@, PlayerIdx(rm, socketId))]
           w1 == broadcast(SetRoom(w, key, rm1), key, "player-left", socketId)
           w2 == broadcastPlayerList(w1, key)
       IN IF Len(rm1.players) = 0
          THEN DeleteRoom(stopTimer(ClearInterval(w2, key, "sim"), key), key)
          ELSE IF AllReady(rm1) /\ ~rm1.matchRunning
               THEN startMatch(w2, key, sp)
               ELSE w2

\* history stamp of an input: 0 when received while a match is running, 2 when
\* received while none is
Stamp(rm, input) == [input EXCEPT !.gen = IF rm.matchRunning THEN 0 ELSE 2]

receiveInput(w, key, socketId, input) ==
  LET rm == Room(w, key)
  IN IF ~HasPlayer(rm, socketId) \/ ~rm.matchRunning THEN w
     ELSE SetRoom(w, key,
            [rm EXCEPT !.players[PlayerIdx(rm, socketId)].inputs =
                          Append(@, Stamp(rm, input))])

\* mutant of setPlayerReady: a match is started anew whenever every player is
\* ready, a running one included
setPlayerReady_Restart(w, key, socketId, ready, sp) ==
  LET rm == Room(w, key)
  IN IF ~HasPlayer(rm, socketId) THEN w
     ELSE
       LET rm1 == [rm EXCEPT !.players[PlayerIdx(rm, socketId)].ready = ready]
           w1 == broadcast(SetRoom(w, key, rm1), key, "player-ready-update",
                           [id |-> socketId, ready |-> ready])
           w2 == broadcastPlayerList(w1, key)
       IN IF Len(rm1.players) > 0 /\ AllReady(rm1)
          THEN startMatch_Again(w2, key, sp)
          ELSE w2

\* mutant of setPlayerReady: the flag is set but no match is started
setPlayerReady_Idle(w, key, socketId, ready, sp) ==
  LET rm == Room(w, key)
  IN IF ~HasPlayer(rm, socketId) THEN w
     ELSE
       LET rm1 == [rm EXCEPT !.players[PlayerIdx(rm, socketId)].ready = ready]
           w1 == broadcast(SetRoom(w, key, rm1), key, "player-ready-update",
                           [id |-> socketId, ready |-> ready])
       IN broadcastPlayerList(w1, key)

setPlayerReady(w, key, socketId, ready, sp) ==
  LET rm == Room(w, key)
  IN IF ~HasPlayer(rm, socketId) THEN w
     ELSE
       LET rm1 == [rm EXCEPT !.players[PlayerIdx(rm, socketId)].ready = ready]
           w1 == broadcast(SetRoom(w, key, rm1), key, "player-ready-update",
                           [id |-> socketId, ready |-> ready])
           w2 == broadcastPlayerList(w1, key)
       IN IF Len(rm1.players) > 0 /\ AllReady(rm1)
          THEN startMatch(w2, key, sp)
          ELSE w2

\* Manual restart wrapper
restartMatch(w, key, sp) ==
  IF ~Room(w, key).matchRunning THEN startMatch(w, key, sp) ELSE w

----------------------------------------------------------------------------
(* tick *)

turnSpeed == 8
accel == 700
maxSpeed == 600
bulletSpeed == 400
hitRadius == 20
damage == 20

\* life: 2.5 seconds, in 1/90 s; dt is 2
BulletLife == (5 * 90) \div 2
DtLife == 90 \div GAME_TICK_RATE

\* n * dt for a velocity n
TimesDt(n) == TruncDiv(n, GAME_TICK_RATE)

\* (input.turn || 0) * turnSpeed * dt, in heading steps: 8/45 rad is one step
TurnSteps(turn) == turn * (((turnSpeed * 1000) \div GAME_TICK_RATE) \div 175)

\* Math.cos(angle) * n and Math.sin(angle) * n
CosTimes(h, n) == TruncDiv(Cos1000(h) * n, 1000)
SinTimes(h, n) == TruncDiv(Sin1000(h) * n, 1000)

\* mutant of spawnBullet: a bullet lives 2.4 seconds
spawnBullet_Short(bullets, owner, x, y, angle, t) ==
  Append(bullets,
         [id |-> <<owner, t, Len(bullets) + 1>>, x |-> x, y |-> y,
          vx |-> CosTimes(angle, U(bulletSpeed)), vy |-> SinTimes(angle, U(bulletSpeed)),
          owner |-> owner, life |-> BulletLife - 9])

\* spawnBullet: t and the ordinal stand for Date.now() and the random suffix
spawnBullet(bullets, owner, x, y, angle, t) ==
  Append(bullets,
         [id |-> <<owner, t, Len(bullets) + 1>>, x |-> x, y |-> y,
          vx |-> CosTimes(angle, U(bulletSpeed)), vy |-> SinTimes(angle, U(bulletSpeed)),
          owner |-> owner, life |-> BulletLife])

\* Clamp speed
ClampSpeed(p) ==
  IF p.vx * p.vx + p.vy * p.vy > U(maxSpeed) * U(maxSpeed)
  THEN LET spd == Hypot(p.vx, p.vy)
       IN [p EXCEPT !.vx = TruncDiv(p.vx * U(maxSpeed), spd),
                    !.vy = TruncDiv(p.vy * U(maxSpeed), spd)]
  ELSE p

\* the body of the while loop over p.inputs, up to the fire test
ApplyInput(p, input) ==
  LET a1 == (p.a + TurnSteps(input.turn) + 36) % 36
      p1 == [p EXCEPT !.lastInputSeq = input.seq, !.a = a1,
                      !.vx = @ + TimesDt(CosTimes(a1, input.thrust * U(accel))),
                      !.vy = @ + TimesDt(SinTimes(a1, input.thrust * U(accel)))]
  IN ClampSpeed(p1)

\* mutant of DrainInputs: the queue is taken from its end (pop, not shift)
RECURSIVE DrainInputs_Pop(_, _, _)
DrainInputs_Pop(st, i, t) ==
  LET p == st.players[i]
  IN IF p.inputs = <<>> THEN st
     ELSE
       LET input == p.inputs[Len(p.inputs)]
           p1 == ApplyInput([p EXCEPT !.inputs = SubSeq(@, 1, Len(@) - 1)], input)
           bs == IF input.fire
                 THEN spawnBullet(st.bullets, p1.id,
                                  p1.x + CosTimes(p1.a, U(20)),
                                  p1.y + SinTimes(p1.a, U(20)), p1.a, t)
                 ELSE st.bullets
       IN DrainInputs_Pop([players |-> [st.players EXCEPT ![i] = p1],
                           bullets |-> bs,
                           applied |-> Append(st.applied,
                                              [id |-> p1.id, input |-> input])],
                          i, t)

\* while (p.inputs.length > 0) for player i of st.players;
\* st: [players, bullets, applied]
RECURSIVE DrainInputs(_, _, _)
DrainInputs(st, i, t) ==
  LET p == st.players[i]
  IN IF p.inputs = <<>> THEN st
     ELSE
       LET input == Head(p.inputs)
           p1 == ApplyInput([p EXCEPT !.inputs = Tail(@)], input)
           bs == IF input.fire
                 THEN spawnBullet(st.bullets, p1.id,
                                  p1.x + CosTimes(p1.a, U(20)),
                                  p1.y + SinTimes(p1.a, U(20)), p1.a, t)
                 ELSE st.bullets
       IN DrainInputs([players |-> [st.players EXCEPT ![i] = p1],
                       bullets |-> bs,
                       applied |-> Append(st.applied, [id |-> p1.id, input |-> input])],
                      i, t)

\* for (const [id, p] of this.players.entries())
RECURSIVE ProcessInputs(_, _, _)
ProcessInputs(st, i, t) ==
  IF i > Len(st.players) THEN st
  ELSE ProcessInputs(DrainInputs(st, i, t), i + 1, t)

\* mutant of MovePlayer: the position is not clamped to the arena
MovePlayer_NoClamp(map, p) ==
  LET x1 == p.x + TimesDt(p.vx)
      y1 == p.y + TimesDt(p.vy)
      hit == collidesWithObstacles(map, x1, y1, U(20))
  IN [p EXCEPT !.x = IF hit THEN p.x ELSE x1,
               !.y = IF hit THEN p.y ELSE y1,
               !.vx = IF hit THEN 0 ELSE TruncDiv(p.vx * 95, 100),
               !.vy = IF hit THEN 0 ELSE TruncDiv(p.vy * 95, 100)]

\* Move players with obstacle collision
MovePlayer(map, p) ==
  LET x1 == p.x + TimesDt(p.vx)
      y1 == p.y + TimesDt(p.vy)
      vx1 == TruncDiv(p.vx * 95, 100)
      vy1 == TruncDiv(p.vy * 95, 100)
      hit == collidesWithObstacles(map, x1, y1, U(20))
      x2 == IF hit THEN p.x ELSE x1
      y2 == IF hit THEN p.y ELSE y1
  IN [p EXCEPT !.x = Max(0, Min(map.width, x2)),
               !.y = Max(0, Min(map.height, y2)),
               !.vx = IF hit THEN 0 ELSE vx1,
               !.vy = IF hit THEN 0 ELSE vy1]

\* dx * dx + dy * dy <= 20 * 20, without leaving 32 bits
InHitRadius(b, p) ==
  LET dx == b.x - p.x
      dy == b.y - p.y
  IN /\ Abs(dx) <= U(hitRadius)
     /\ Abs(dy) <= U(hitRadius)
     /\ dx * dx + dy * dy <= U(hitRadius) * U(hitRadius)

\* mutant of HitIndex: the last player in range is struck
HitIndex_Last(players, b) ==
  LET cand == { j \in 1..Len(players) :
                  players[j].id # b.owner /\ InHitRadius(b, players[j]) }
  IN IF cand = {} THEN 0 ELSE CHOOSE j \in cand : \A k \in cand : j >= k

\* the first player, in the order of this.players, the bullet strikes (0: none)
HitIndex(players, b) ==
  LET cand == { j \in 1..Len(players) :
                  players[j].id # b.owner /\ InHitRadius(b, players[j]) }
  IN IF cand = {} THEN 0 ELSE CHOOSE j \in cand : \A k \in cand : j <= k

GameEvent(type, target, by, obstacle, x, y) ==
  [type |-> type, target |-> target, by |-> by, obstacle |-> obstacle,
   x |-> x, y |-> y]

\* mutant of HitPlayer: a player dies only below 0
HitPlayer_Below(st, b, j, sp) ==
  LET p == st.players[j]
      hp1 == p.hp - damage
  IN IF hp1 < 0
     THEN
       LET d == sp[p.id]
           ps == [st.players EXCEPT ![j].hp = 100, ![j].x = d.x, ![j].y = d.y]
       IN [st EXCEPT !.players = ps,
                     !.evs = Append(@, GameEvent("killed", p.id, b.owner, FALSE, d.x, d.y))]
     ELSE [st EXCEPT !.players[j].hp = hp1,
                     !.evs = Append(@, GameEvent("hit", p.id, b.owner, FALSE, p.x, p.y))]

\* the bullet b (already moved) strikes player j
HitPlayer(st, b, j, sp) ==
  LET p == st.players[j]
      hp1 == p.hp - damage
  IN IF hp1 <= 0
     THEN
       LET d == sp[p.id]
           withKill == IF \E k \in 1..Len(st.players) : st.players[k].id = b.owner
                       THEN LET k == CHOOSE k \in 1..Len(st.players) :
                                       st.players[k].id = b.owner
                            IN [st.players EXCEPT ![k].kills = @ + 1]
                       ELSE st.players
           ps == [withKill EXCEPT ![j].hp = 100, ![j].x = d.x, ![j].y = d.y]
       IN [st EXCEPT !.players = ps,
                     !.evs = Append(@, GameEvent("killed", p.id, b.owner, FALSE, d.x, d.y))]
     ELSE [st EXCEPT !.players[j].hp = hp1,
                     !.evs = Append(@, GameEvent("hit", p.id, b.owner, FALSE, p.x, p.y))]

\* the body of the loop over this.bullets.entries();
\* st: [players, bullets (those kept), evs, expired, struck];
\* struck records the moved bullet and the players before and after it
BulletStep(map, st, b, sp) ==
  LET b1 == [b EXCEPT !.x = @ + TimesDt(b.vx), !.y = @ + TimesDt(b.vy),
                      !.life = @ - DtLife]
      r == IF b1.life <= 0
           THEN [st EXCEPT !.expired = Append(@, b1)]
           ELSE IF collidesWithObstacles(map, b1.x, b1.y, U(2))
                THEN [st EXCEPT !.evs = Append(@, GameEvent("hit", "null", b1.owner,
                                                            TRUE, b1.x, b1.y))]
                ELSE LET j == HitIndex(st.players, b1)
                     IN IF j = 0 THEN [st EXCEPT !.bullets = Append(@, b1)]
                        ELSE HitPlayer(st, b1, j, sp)
  IN [r EXCEPT !.struck = Append(@, [b |-> b1, before |-> st.players,
                                     after |-> r.players])]

RECURSIVE MoveBullets(_, _, _, _, _)
MoveBullets(map, st, bullets, i, sp) ==
  IF i > Len(bullets) THEN st
  ELSE MoveBullets(map, BulletStep(map, st, bullets[i], sp), bullets, i + 1, sp)

RECURSIVE BroadcastAll(_, _, _, _)
BroadcastAll(w, key, evs, i) ==
  IF i > Len(evs) THEN w
  ELSE BroadcastAll(broadcast(w, key, "game-event", evs[i]), key, evs, i + 1)

\* mutant of tick: the simulation steps whether a match is running or not
tick_Always(w, key, sp) ==
  LET rm == Room(w, key)
      t == rm.seq + 1
      s1 == ProcessInputs([players |-> rm.players, bullets |-> rm.bullets,
                           applied |-> <<>>], 1, t)
      moved == [i \in 1..Len(s1.players) |-> MovePlayer(rm.map, s1.players[i])]
      s2 == MoveBullets(rm.map,
                        [players |-> moved, bullets |-> <<>>, evs |-> <<>>,
                         expired |-> <<>>, struck |-> <<>>],
                        s1.bullets, 1, sp)
      rm1 == [rm EXCEPT !.seq = t, !.players = s2.players, !.bullets = s2.bullets]
      w1 == BroadcastAll(SetRoom(w, key, rm1), key, s2.evs, 1)
      w2 == broadcast(w1, key, "game-state",
                      [seq |-> rm1.seq,
                       players |-> [i \in 1..Len(rm1.players) |->
                                      Compact(rm1.players[i])],
                       bullets |-> [i \in 1..Len(rm1.bullets) |-> rm1.bullets[i].id],
                       timeLeft |-> rm1.timeLeft])
  IN [w2 EXCEPT !.trace = [applied |-> s1.applied, expired |-> s2.expired,
                           struck |-> s2.struck, call |-> <<>>, sampled |-> 0]]

\* sp: the draw getSafeSpawn returns for each player that is killed
tick(w, key, sp) ==
  LET rm == Room(w, key)
  IN IF ~rm.matchRunning THEN w
     ELSE
       LET t == rm.seq + 1
           s1 == ProcessInputs([players |-> rm.players, bullets |-> rm.bullets,
                                applied |-> <<>>], 1, t)
           moved == [i \in 1..Len(s1.players) |-> MovePlayer(rm.map, s1.players[i])]
           s2 == MoveBullets(rm.map,
                             [players |-> moved, bullets |-> <<>>, evs |-> <<>>,
                              expired |-> <<>>, struck |-> <<>>],
                             s1.bullets, 1, sp)
           rm1 == [rm EXCEPT !.seq = t, !.players = s2.players, !.bullets = s2.bullets]
           w1 == BroadcastAll(SetRoom(w, key, rm1), key, s2.evs, 1)
           w2 == broadcast(w1, key, "game-state",
                           [seq |-> rm1.seq,
                            players |-> [i \in 1..Len(rm1.players) |->
                                           Compact(rm1.players[i])],
                            bullets |-> [i \in 1..Len(rm1.bullets) |-> rm1.bullets[i].id],
                            timeLeft |-> rm1.timeLeft])
       IN [w2 EXCEPT !.trace = [applied |-> s1.applied, expired |-> s2.expired,
                                struck |-> s2.struck, call |-> <<>>, sampled |-> 0]]

----------------------------------------------------------------------------
(* The draws of Math.random() a handler consumes *)

DefaultDraw(samples) == CHOOSE d \in samples : \A e \in samples :
                          <<d.x, d.y, d.tries>> = <<e.x, e.y, e.tries>>
                          \/ d.x < e.x \/ (d.x = e.x /\ d.y < e.y)
                          \/ (d.x = e.x /\ d.y = e.y /\ d.tries < e.tries)

DefaultFn(samples) == [c \in Conns |-> DefaultDraw(samples)]

\* one draw of getSafeSpawn for each player of need; the others are not drawn
SpawnFns(samples, need, map) ==
  { f \in [Conns -> samples] :
      /\ \A c \in need : getSafeSpawn(map, f[c])
      /\ \A c \in Conns \ need : f[c] = DefaultDraw(samples) }

Emitted(w, key, type) ==
  \E i \in 1..Len(w.events) : w.events[i].type = type /\ w.events[i].room = key

\* the players startMatch respawns when the handler's result is w1
StartNeed(w1, key) ==
  IF HasRoom(w1, key) /\ Emitted(w1, key, "match-started")
  THEN PlayerIds(Room(w1, key)) ELSE {}

RECURSIVE CountFire(_)
CountFire(q) ==
  IF q = <<>> THEN 0 ELSE (IF Head(q).fire THEN 1 ELSE 0) + CountFire(Tail(q))

RECURSIVE SumFire(_, _)
SumFire(players, i) ==
  IF i > Len(players) THEN 0
  ELSE CountFire(players[i].inputs) + SumFire(players, i + 1)

\* the players a tick can respawn: health at most 20 for each bullet in flight
TickNeed(rm) ==
  LET n == Len(rm.bullets) + SumFire(rm.players, 1)
  IN IF ~rm.matchRunning THEN {}
     ELSE { c \in PlayerIds(rm) : rm.players[PlayerIdx(rm, c)].hp <= damage * n }

----------------------------------------------------------------------------
(* Socket handlers and timer callbacks *)

\* new GameRoom(key, io) and gameRooms.set(key, ...)
CreateRoom(w, key, map) ==
  SetInterval([w EXCEPT !.rooms = Append(@, NewGameRoom(key, map))], key, "sim")

\* socket.emit(event, data)
socketEmit(w, key, socketId, event) ==
  [w EXCEPT !.events = Append(@, [type |-> event, room |-> key, data |-> socketId])]

\* socket.on("game-join"); map: what generateMap returns if the room is new
GameJoin(socketId, room, name, map, d, a) ==
  LET key == RoomKey(room)
      w1 == IF HasRoom(World, key) THEN World ELSE CreateRoom(World, key, map)
  IN /\ getSafeSpawn(Room(w1, key).map, d)
     /\ Room(w1, key).map = map
     /\ Commit(socketEmit(addPlayer(w1, key, socketId, name, d, a), key, socketId,
                          "game-joined"))

\* socket.on("game-leave")
GameLeave(socketId, room, samples) ==
  LET key == RoomKey(room)
  IN IF ~HasRoom(World, key) THEN Commit(World)
     ELSE \E sp \in SpawnFns(samples,
                             StartNeed(removePlayer(World, key, socketId,
                                                    DefaultFn(samples)), key),
                             Room(World, key).map) :
            Commit(removePlayer(World, key, socketId, sp))

\* socket.on("game-input")
GameInput(socketId, room, input) ==
  LET key == RoomKey(room)
  IN IF ~HasRoom(World, key) THEN Commit(World)
     ELSE Commit(receiveInput(World, key, socketId, input))

\* for (const [name, g] of gameRooms.entries()) of the disconnect handler;
\* names: the keys of gameRooms when the loop starts
\* mutant of DisconnectLoop: the loop is left after the first room found
RECURSIVE DisconnectLoop_First(_, _, _, _, _)
DisconnectLoop_First(w, names, i, socketId, sps) ==
  IF i > Len(names) THEN w
  ELSE LET name == names[i]
       IN IF HasRoom(w, name) /\ HasPlayer(Room(w, name), socketId)
          THEN removePlayer(w, name, socketId, sps[name])
          ELSE DisconnectLoop_First(w, names, i + 1, socketId, sps)

RECURSIVE DisconnectLoop(_, _, _, _, _)
DisconnectLoop(w, names, i, socketId, sps) ==
  IF i > Len(names) THEN w
  ELSE LET name == names[i]
           w1 == IF HasRoom(w, name) /\ HasPlayer(Room(w, name), socketId)
                 THEN removePlayer(w, name, socketId, sps[name])
                 ELSE w
       IN DisconnectLoop(w1, names, i + 1, socketId, sps)

RoomNames(w) == [i \in 1..Len(w.rooms) |-> w.rooms[i].name]

\* socket.on("disconnect")
Disconnect(socketId, samples) ==
  LET names == RoomNames(World)
      dflt == [k \in Keys |-> DefaultFn(samples)]
      w0 == DisconnectLoop(World, names, 1, socketId, dflt)
      fns(k) == IF HasRoom(World, k)
                THEN SpawnFns(samples, StartNeed(w0, k), Room(World, k).map)
                ELSE { DefaultFn(samples) }
  IN \E sps \in { g \in [Keys -> UNION { fns(k) : k \in Keys }] :
                    \A k \in Keys : g[k] \in fns(k) } :
       Commit(DisconnectLoop(World, names, 1, socketId, sps))

\* socket.on("player-ready")
PlayerReady(socketId, room, ready, samples) ==
  LET key == RoomKey(room)
  IN IF ~HasRoom(World, key) THEN Commit(World)
     ELSE \E sp \in SpawnFns(samples,
                             StartNeed(setPlayerReady(World, key, socketId, ready,
                                                      DefaultFn(samples)), key),
                             Room(World, key).map) :
            Commit(setPlayerReady(World, key, socketId, ready, sp))

\* socket.on("request-restart")
RequestRestart(socketId, room, samples) ==
  LET key == RoomKey(room)
  IN IF ~HasRoom(World, key) THEN Commit(World)
     ELSE \E sp \in SpawnFns(samples,
                             StartNeed(setPlayerReady(World, key, socketId, TRUE,
                                                      DefaultFn(samples)), key),
                             Room(World, key).map) :
            Commit(setPlayerReady(World, key, socketId, TRUE, sp))

\* the callback of this.interval
TickTimer(key, samples) ==
  /\ timers[key].sim > 0
  /\ HasRoom(World, key)
  /\ \E sp \in SpawnFns(samples, TickNeed(Room(World, key)), Room(World, key).map) :
       Commit(tick(World, key, sp))

\* the callback of this.timerInterval
CountdownTimer(key) ==
  /\ timers[key].cd > 0
  /\ HasRoom(World, key)
  /\ Commit(updateTimer(World, key))

----------------------------------------------------------------------------
(* Inputs and bounds *)

Input(seq, turn, thrust, fire) ==
  [seq |-> seq, turn |-> turn, thrust |-> thrust, fire |-> fire, gen |-> 2]

\* a room instance runs at most max simulation steps
TickBound(key, max) ==
  HasRoom(World, key) =>
    (Room(World, key).matchRunning => Room(World, key).seq < max)

\* a player has at most max inputs queued
QueueBound(socketId, room, max) ==
  LET key == RoomKey(room)
  IN (HasRoom(World, key) /\ HasPlayer(Room(World, key), socketId)) =>
       Len(Room(World, key).players[PlayerIdx(Room(World, key), socketId)].inputs)
         < max

NoTimers == [k \in Keys |-> [sim |-> 0, cd |-> 0]]

\* the world the next handler starts from
Settle(w) == [rooms |-> AgeStamps(w), timers |-> w.timers, events |-> <<>>,
              trace |-> NoTrace]

\* the state once w is the result of the last handler
StateIs(w) ==
  /\ gameRooms = AgeStamps(w)
  /\ timers = w.timers
  /\ events = w.events
  /\ trace = w.trace

\* s1 then s2 join a new room and both set ready: the match has just started,
\* the players at the draws sp
MatchOfTwo(room, map, a1, a2, sp) ==
  LET key == RoomKey(room)
      d == sp["s1"]
      w0 == [rooms |-> <<>>, timers |-> NoTimers, events |-> <<>>, trace |-> NoTrace]
      w1 == Settle(socketEmit(addPlayer(CreateRoom(w0, key, map), key, "s1", "Player",
                                        d, a1), key, "s1", "game-joined"))
      w2 == Settle(socketEmit(addPlayer(w1, key, "s2", "Player", d, a2), key, "s2",
                              "game-joined"))
      w3 == Settle(setPlayerReady(w2, key, "s1", TRUE, sp))
  IN setPlayerReady(w3, key, "s2", TRUE, sp)

Init ==
  /\ gameRooms = <<>>
  /\ timers = NoTimers
  /\ events = <<>>
  /\ trace = NoTrace

----------------------------------------------------------------------------
(* Spec: one arena name, two connections, every handler *)

MainRooms == { <<" ", "A">> }
MainConns == { "s1", "s2" }
MainSenders == { "s1" }
MainSamples == { Draw(100, 100, 1) }
MainInputs == { Input(n, 0, 0, FALSE) : n \in 1..MaxInputSeq }

Next ==
  \/ \E s \in MainConns, r \in MainRooms, n \in Names, d \in MainSamples :
       GameJoin(s, r, n, ArenaA, d, 0)
  \/ \E s \in MainConns, r \in MainRooms : GameLeave(s, r, MainSamples)
  \/ \E s \in MainSenders, r \in MainRooms, i \in MainInputs :
       QueueBound(s, r, MaxQueue) /\ GameInput(s, r, i)
  \/ \E s \in MainConns : Disconnect(s, MainSamples)
  \/ \E s \in MainConns, r \in MainRooms, b \in BOOLEAN : PlayerReady(s, r, b, MainSamples)
  \/ \E s \in MainConns, r \in MainRooms : RequestRestart(s, r, MainSamples)
  \/ \E k \in Keys : TickBound(k, MaxTick) /\ TickTimer(k, MainSamples)
  \/ \E k \in Keys : CountdownTimer(k)

Spec == Init /\ [][Next]_vars

----------------------------------------------------------------------------
(* SpecCombat: a match of two players has just started; s1 sends inputs and
   the simulation runs *)

CombatTicks == 3
CombatQueue == 2

CombatRoom == <<"a">>
Near == Draw(100, 100, 1)
Ahead == Draw(130, 100, 1)
Corner0 == Draw(0, 0, 1)
Corner1 == [x |-> U(MAP_WIDTH) - 1, y |-> U(MAP_HEIGHT) - 1, tries |-> 1]
CombatSamples == { Near, Ahead, Corner0, Corner1 }
RespawnSamples == { Near, Ahead }
LateSamples == { Ahead, Corner1 }
CombatInputs == { Input(1, 0, 0, TRUE), Input(1, 0, 1, FALSE) }

\* heading of s1 and the draws of the match start
CombatStarts ==
  { [a |-> 0, s1 |-> Near, s2 |-> Ahead],
    [a |-> 18, s1 |-> Corner0, s2 |-> Ahead],
    [a |-> 27, s1 |-> Corner0, s2 |-> Ahead],
    [a |-> 0, s1 |-> Corner1, s2 |-> Ahead],
    [a |-> 9, s1 |-> Corner1, s2 |-> Ahead] }

InitCombat ==
  \E c \in CombatStarts :
    \E sp \in SpawnFns(CombatSamples, {"s1", "s2"}, ArenaA) :
      /\ sp["s1"] = c.s1 /\ sp["s2"] = c.s2
      /\ StateIs(MatchOfTwo(CombatRoom, ArenaA, c.a, 0, sp))

NextCombat ==
  \/ \E i \in CombatInputs :
       QueueBound("s1", CombatRoom, CombatQueue) /\ GameInput("s1", CombatRoom, i)
  \/ \E k \in Keys : TickBound(k, CombatTicks) /\ TickTimer(k, RespawnSamples)
  \/ \E d \in LateSamples : GameJoin("s3", CombatRoom, "Player", ArenaA, d, 0)

SpecCombat == InitCombat /\ [][NextCombat]_vars

----------------------------------------------------------------------------
(* Bullets in flight: s1 fires away from s2 and from every obstacle during
   the first steps of a match, and the simulation runs until the bullets
   are gone *)

BulletTicks == 116
FireUntil == 3
BulletStarts == { 18, 27 }

\* the room has run fewer than max simulation steps
FireWindow(room, max) ==
  HasRoom(World, RoomKey(room)) /\ Room(World, RoomKey(room)).seq < max

InitBullet ==
  \E a \in BulletStarts : \E sp \in SpawnFns({Near, Ahead}, {"s1", "s2"}, ArenaA) :
    /\ sp["s1"] = Near /\ sp["s2"] = Ahead
    /\ StateIs(MatchOfTwo(CombatRoom, ArenaA, a, 0, sp))

NextBullet ==
  \/ /\ FireWindow(CombatRoom, FireUntil)
     /\ QueueBound("s1", CombatRoom, CombatQueue)
     /\ GameInput("s1", CombatRoom, Input(1, 0, 0, TRUE))
  \/ \E k \in Keys : TickBound(k, BulletTicks) /\ TickTimer(k, RespawnSamples)

SpecBullet == InitBullet /\ [][NextBullet]_vars

----------------------------------------------------------------------------
(* SpecCalls: a match of two players has just started, s1 aiming at s2;
   the handlers run and the lifecycle methods of the room are called
   directly in any state *)

CallTicks == 2
CallQueue == 1
CallCountdowns == 2
CallSamples == { Near, Ahead }

\* the countdown of a match has fired fewer than max times
CountdownBound(key, max) ==
  HasRoom(World, key) => Room(World, key).cdFired < max

\* g.startMatch()
StartMatchCall(key, samples) ==
  /\ HasRoom(World, key)
  /\ \E sp \in SpawnFns(samples,
                        StartNeed(startMatch(World, key, DefaultFn(samples)), key),
                        Room(World, key).map) :
       Commit([startMatch(World, key, sp) EXCEPT !.trace.call = <<"startMatch", key>>])

\* g.endMatch()
EndMatchCall(key) ==
  /\ HasRoom(World, key)
  /\ Commit([endMatch(World, key) EXCEPT !.trace.call = <<"endMatch", key>>])

\* g.restartMatch()
RestartMatchCall(key, samples) ==
  /\ HasRoom(World, key)
  /\ \E sp \in SpawnFns(samples,
                        StartNeed(restartMatch(World, key, DefaultFn(samples)), key),
                        Room(World, key).map) :
       Commit([restartMatch(World, key, sp) EXCEPT !.trace.call = <<"restartMatch", key>>])

InitCalls ==
  \E sp \in SpawnFns(CallSamples, {"s1", "s2"}, ArenaA) :
    /\ sp["s1"] = Near /\ sp["s2"] = Ahead
    /\ StateIs(MatchOfTwo(CombatRoom, ArenaA, 0, 0, sp))

NextCalls ==
  \/ /\ QueueBound("s1", CombatRoom, CallQueue)
     /\ GameInput("s1", CombatRoom, Input(1, 0, 0, TRUE))
  \/ \E s \in MainConns, b \in BOOLEAN : PlayerReady(s, CombatRoom, b, CallSamples)
  \/ \E k \in Keys : TickBound(k, CallTicks) /\ TickTimer(k, CallSamples)
  \/ \E k \in Keys : CountdownBound(k, CallCountdowns) /\ CountdownTimer(k)
  \/ \E k \in Keys : StartMatchCall(k, CallSamples)
  \/ \E k \in Keys : EndMatchCall(k)
  \/ \E k \in Keys : RestartMatchCall(k, CallSamples)

SpecCalls == InitCalls /\ [][NextCalls]_vars

----------------------------------------------------------------------------
(* SpecWinner: the last second of a match of one, two or three players,
   every assignment of kill counts up to WinnerMaxKills *)

WinnerMaxKills == 7
WinnerIds == << "s1", "s2", "s3" >>

\* the first n connections of WinnerIds join room key of world w in turn
RECURSIVE JoinAll(_, _, _, _)
JoinAll(w, key, n, d) ==
  IF n = 0 THEN w
  ELSE Settle(socketEmit(addPlayer(JoinAll(w, key, n - 1, d), key, WinnerIds[n],
                                   "Player", d, 0), key, WinnerIds[n], "game-joined"))

\* a match of n players 64 seconds after its start, player i with ks[i] kills
LastSecond(room, map, n, ks) ==
  LET key == RoomKey(room)
      w0 == [rooms |-> <<>>, timers |-> NoTimers, events |-> <<>>, trace |-> NoTrace]
      w1 == JoinAll(CreateRoom(w0, key, map), key, n, Near)
      w2 == Settle(startMatch(w1, key, DefaultFn({Near})))
      rm == Room(w2, key)
  IN SetRoom(w2, key,
             [rm EXCEPT !.timeLeft = 1, !.cdFired = matchDuration - 1,
                        !.players = [i \in 1..Len(@) |-> [@[i] EXCEPT !.kills = ks[i]]]])

InitWinner ==
  \E n \in 1..Len(WinnerIds) : \E ks \in [1..n -> 0..WinnerMaxKills] :
    StateIs(LastSecond(CombatRoom, ArenaA, n, ks))

NextWinner == \E k \in Keys : CountdownTimer(k)

SpecWinner == InitWinner /\ [][NextWinner]_vars

----------------------------------------------------------------------------
(* SpecMap: rooms constructed by generateMap from runs of wall candidates *)

MAX_TRIES == 100
WALL_COUNT == 8
MapTicks == 1
MapCountdowns == 1

\* Helper: check if two rectangles overlap
isOverlapping(a, b) ==
  /\ a.x < b.x + b.w
  /\ a.x + a.w > b.x
  /\ a.y < b.y + b.h
  /\ a.y + a.h > b.y

\* candidates generateMap can sample: the walls of ArenaA, a ninth wall clear
\* of them, one that overlaps the first and one that touches the second
MapPool ==
  ArenaA.walls \o << Wall(350, 500, 60, 120), Wall(650, 320, 150, 50),
                     Wall(450, 200, 150, 50) >>

\* a run of Math.random(): the candidates sampled are those of MapPool taken
\* from start in steps of stride, cyclically; stride 0 samples one candidate
\* again and again
MapStrides == { 0, 1, 4 }
MapRuns == [start : 0..(Len(MapPool) - 1), stride : MapStrides]

\* the i-th candidate newWall of a run
Cand(run, i) == MapPool[((run.start + (i - 1) * run.stride) % Len(MapPool)) + 1]

\* mutant of WallsLoop: a candidate is added whether it overlaps or not
RECURSIVE WallsLoop_Any(_, _, _)
WallsLoop_Any(walls, tries, run) ==
  IF Len(walls) < WALL_COUNT /\ tries < MAX_TRIES
  THEN WallsLoop_Any(Append(walls, Cand(run, tries + 1)), tries + 1, run)
  ELSE [walls |-> walls, tries |-> tries]

\* while (walls.length < WALL_COUNT && tries < MAX_TRIES)
RECURSIVE WallsLoop(_, _, _)
WallsLoop(walls, tries, run) ==
  IF Len(walls) < WALL_COUNT /\ tries < MAX_TRIES
  THEN LET newWall == Cand(run, tries + 1)
           overlaps == \E i \in 1..Len(walls) : isOverlapping(walls[i], newWall)
       IN WallsLoop(IF ~overlaps THEN Append(walls, newWall) ELSE walls,
                    tries + 1, run)
  ELSE [walls |-> walls, tries |-> tries]

\* generateMap: the map returned and the candidates sampled for it
generateMap(run, pillars) ==
  LET r == WallsLoop(<<>>, 0, run)
  IN [map |-> [walls |-> r.walls, pillars |-> pillars,
               width |-> U(MAP_WIDTH), height |-> U(MAP_HEIGHT)],
      tries |-> r.tries]

\* socket.on("game-join"), the constructor of a new room running generateMap
GameJoinNew(socketId, room, name, run, pillars, d, a) ==
  LET key == RoomKey(room)
      g == generateMap(run, pillars)
      w1 == IF HasRoom(World, key) THEN World
            ELSE [CreateRoom(World, key, g.map) EXCEPT !.trace.sampled = g.tries]
  IN /\ getSafeSpawn(Room(w1, key).map, d)
     /\ HasRoom(World, key) => run = [start |-> 0, stride |-> 0]
     /\ Commit(socketEmit(addPlayer(w1, key, socketId, name, d, a), key, socketId,
                          "game-joined"))

NextMap ==
  \/ \E s \in MainConns, run \in MapRuns :
       GameJoinNew(s, CombatRoom, "Player", run, ArenaA.pillars, Near, 0)
  \/ \E s \in MainConns : GameLeave(s, CombatRoom, {Near})
  \/ \E s \in MainConns, b \in BOOLEAN : PlayerReady(s, CombatRoom, b, {Near})
  \/ QueueBound("s1", CombatRoom, CallQueue)
       /\ GameInput("s1", CombatRoom, Input(1, 0, 1, TRUE))
  \/ \E k \in Keys : TickBound(k, MapTicks) /\ TickTimer(k, {Near})
  \/ \E k \in Keys : CountdownBound(k, MapCountdowns) /\ CountdownTimer(k)

SpecMap == Init /\ [][NextMap]_vars

----------------------------------------------------------------------------
(* SpecRooms: two connections, two room names, every socket handler *)

RoomsQueue == 1
TwoRooms == { <<"a">>, <<"B", " ">> }
RoomsInputs == { Input(1, 0, 0, FALSE) }

NextRooms ==
  \/ \E s \in MainConns, r \in TwoRooms : GameJoin(s, r, "Player", ArenaA, Near, 0)
  \/ \E s \in MainConns, r \in TwoRooms : GameLeave(s, r, {Near})
  \/ \E s \in MainSenders, r \in TwoRooms, i \in RoomsInputs :
       QueueBound(s, r, RoomsQueue) /\ GameInput(s, r, i)
  \/ \E s \in MainConns : Disconnect(s, {Near})
  \/ \E s \in MainConns, r \in TwoRooms, b \in BOOLEAN : PlayerReady(s, r, b, {Near})
  \/ \E s \in MainConns, r \in TwoRooms : RequestRestart(s, r, {Near})

SpecRooms == Init /\ [][NextRooms]_vars

----------------------------------------------------------------------------
(* SpecRematch: the last second of a match of two players, s1 aiming at s2,
   with kills on both sides; the match ends, the players fight on and set
   ready again *)

RematchTicks == 2
RematchQueue == 1
RematchKills == 1
RematchInputs == { Input(1, 0, 0, TRUE), Input(2, 0, 1, FALSE) }

\* the match MatchOfTwo started, 64 seconds on, player i with ks[i] kills
LastSecondOfTwo(room, map, sp, ks) ==
  LET key == RoomKey(room)
      w == Settle(MatchOfTwo(room, map, 0, 0, sp))
      rm == Room(w, key)
  IN SetRoom(w, key,
             [rm EXCEPT !.timeLeft = 1, !.cdFired = matchDuration - 1,
                        !.players = [i \in 1..Len(@) |-> [@[i] EXCEPT !.kills = ks[i]]]])

InitRematch ==
  \E ks \in [1..2 -> 0..RematchKills] :
    \E sp \in SpawnFns(CallSamples, {"s1", "s2"}, ArenaA) :
      /\ sp["s1"] = Near /\ sp["s2"] = Ahead
      /\ StateIs(LastSecondOfTwo(CombatRoom, ArenaA, sp, ks))

NextRematch ==
  \/ \E i \in RematchInputs :
       QueueBound("s1", CombatRoom, RematchQueue) /\ GameInput("s1", CombatRoom, i)
  \/ \E s \in MainConns, b \in BOOLEAN : PlayerReady(s, CombatRoom, b, {Near})
  \/ \E s \in MainConns : GameLeave(s, CombatRoom, {Near})
  \/ \E s \in MainConns : GameJoin(s, CombatRoom, "Player", ArenaA, Near, 0)
  \/ \E k \in Keys : TickBound(k, RematchTicks) /\ TickTimer(k, {Near})
  \/ \E k \in Keys : CountdownTimer(k)

SpecRematch == InitRematch /\ [][NextRematch]_vars

----------------------------------------------------------------------------
(* Vocabulary of the properties *)

\* the registry rs holds a room named k
Reg(rs, k) == \E i \in 1..Len(rs) : rs[i].name = k
RoomOf(rs, k) == rs[CHOOSE i \in 1..Len(rs) : rs[i].name = k]

\* the events of type t the sequence evs holds for room k
EventsOf(evs, k, t) == { i \in 1..Len(evs) : evs[i].type = t /\ evs[i].room = k }

\* a match of room k was not running before the step and is running after it
Starts(k) ==
  /\ Reg(gameRooms, k) /\ ~RoomOf(gameRooms, k).matchRunning
  /\ Reg(gameRooms', k) /\ RoomOf(gameRooms', k).matchRunning

\* every player of rm other than id is ready
OthersReady(rm, id) ==
  \A i \in 1..Len(rm.players) : rm.players[i].id # id => rm.players[i].ready

----------------------------------------------------------------------------
\* C1: in a room whose match is not running, a ready-flag change or a player
\* removal starts the match (matchRunning becomes true, match-started is
\* emitted) exactly when the room then has at least one player and all its
\* players are ready; no other step starts a match.
C1_ReadyGating ==
  [][\A k \in Keys :
       /\ (Reg(gameRooms, k) /\ ~RoomOf(gameRooms, k).matchRunning) =>
            /\ \A i \in EventsOf(events', k, "player-ready-update") :
                 (Starts(k) /\ EventsOf(events', k, "match-started") # {})
                   <=> (events'[i].data.ready
                        /\ OthersReady(RoomOf(gameRooms, k), events'[i].data.id))
            /\ \A i \in EventsOf(events', k, "player-left") :
                 (Starts(k) /\ EventsOf(events', k, "match-started") # {})
                   <=> (Len(RoomOf(gameRooms, k).players) > 1
                        /\ OthersReady(RoomOf(gameRooms, k), events'[i].data))
       /\ (Starts(k) \/ EventsOf(events', k, "match-started") # {}) =>
            /\ Starts(k)
            /\ Cardinality(EventsOf(events', k, "match-started")) = 1
            /\ EventsOf(events', k, "player-ready-update")
                 \cup EventsOf(events', k, "player-left") # {}
            /\ EventsOf(events', k, "game-joined") = {}
            /\ EventsOf(events', k, "game-state") = {}
            /\ EventsOf(events', k, "timer-update") = {}
     ]_vars

\* a removal of a player who is not ready started the match
C1_Witness ==
  \E k \in Keys :
    /\ EventsOf(events, k, "player-left") # {}
    /\ EventsOf(events, k, "match-started") # {}
    /\ Reg(gameRooms, k) /\ RoomOf(gameRooms, k).matchRunning

----------------------------------------------------------------------------
\* C4: timeLeft is always within 0..65; a value broadcast in timer-update or
\* game-state is never negative; once timeLeft is 0 the match is over and the
\* countdown timer stopped (the countdown callback that reaches 0 ends the
\* match in its own step); and timeLeft goes down only by 1, in a countdown
\* callback (timer-update) that found the match running.
C4_TimeLeft ==
  /\ [](\A i \in 1..Len(gameRooms) :
          /\ gameRooms[i].timeLeft \in 0..65
          /\ gameRooms[i].timeLeft <= 0 =>
               /\ ~gameRooms[i].matchRunning
               /\ ~gameRooms[i].timerInterval
               /\ timers[gameRooms[i].name].cd = 0)
  /\ [](\A j \in 1..Len(events) :
          /\ events[j].type = "timer-update" => events[j].data >= 0
          /\ events[j].type = "game-state" => events[j].data.timeLeft >= 0)
  /\ [][\A k \in Keys :
          (/\ Reg(gameRooms, k) /\ Reg(gameRooms', k)
           /\ RoomOf(gameRooms', k).timeLeft < RoomOf(gameRooms, k).timeLeft) =>
            /\ RoomOf(gameRooms, k).matchRunning
            /\ EventsOf(events', k, "timer-update") # {}
            /\ RoomOf(gameRooms', k).timeLeft = RoomOf(gameRooms, k).timeLeft - 1
     ]_vars

\* the countdown callback that reached 0 has just ended the match
C4_Witness ==
  \E k \in Keys :
    /\ \E j \in EventsOf(events, k, "timer-update") : events[j].data = 0
    /\ Reg(gameRooms, k)
    /\ RoomOf(gameRooms, k).timeLeft = 0
    /\ ~RoomOf(gameRooms, k).matchRunning

----------------------------------------------------------------------------
\* C5: match-started carries matchDuration 65; while the match runs fewer than
\* 65 countdown callbacks have fired since it started, and match-ended is
\* emitted by the 65th; with no kill, its winner is null and its rankings list
\* the players of the room, each with kills 0.
C5_TimedMatch ==
  \A k \in Keys :
    /\ \A j \in EventsOf(events, k, "match-started") :
         events[j].data.matchDuration = 65
    /\ Reg(gameRooms, k) =>
         LET rm == RoomOf(gameRooms, k)
         IN /\ rm.matchRunning => rm.cdFired < 65
            /\ rm.cdFired = 65 => ~rm.matchRunning
            /\ \A j \in EventsOf(events, k, "match-ended") :
                 /\ rm.cdFired = 65
                 /\ EventsOf(events, k, "timer-update") # {}
                 /\ (\A i \in 1..Len(rm.players) : rm.players[i].kills = 0) =>
                      /\ events[j].data.winner = <<>>
                      /\ Len(events[j].data.rankings) = Len(rm.players)
                      /\ \A i \in 1..Len(rm.players) :
                           /\ events[j].data.rankings[i].id = rm.players[i].id
                           /\ events[j].data.rankings[i].kills = 0

\* a match of two players has just ended at the 65th countdown callback
C5_Witness ==
  \E k \in Keys :
    /\ EventsOf(events, k, "match-ended") # {}
    /\ Reg(gameRooms, k)
    /\ Len(RoomOf(gameRooms, k).players) = 2
    /\ RoomOf(gameRooms, k).cdFired = 65

----------------------------------------------------------------------------
\* C9: a room enters the registry only in a game-join and leaves it in the
\* step in which its last player is removed; a registered room has at least
\* one player and exactly one simulation timer, and a name that is not
\* registered has no live timer.
C9_Teardown ==
  /\ [](\A k \in Keys :
          /\ Cardinality({ i \in 1..Len(gameRooms) : gameRooms[i].name = k }) <= 1
          /\ Reg(gameRooms, k) =>
               /\ Len(RoomOf(gameRooms, k).players) >= 1
               /\ timers[k].sim = 1
               /\ timers[k].cd <= 1
          /\ ~Reg(gameRooms, k) => timers[k].sim = 0 /\ timers[k].cd = 0)
  /\ [][\A k \in Keys :
          /\ (~Reg(gameRooms, k) /\ Reg(gameRooms', k)) =>
               EventsOf(events', k, "game-joined") # {}
          /\ (Reg(gameRooms, k) /\ ~Reg(gameRooms', k)) =>
               /\ EventsOf(events', k, "player-left") # {}
               /\ Len(RoomOf(gameRooms, k).players) = 1
          /\ (/\ Reg(gameRooms, k)
              /\ Len(RoomOf(gameRooms, k).players) = 1
              /\ \E j \in EventsOf(events', k, "player-left") :
                   events'[j].data = RoomOf(gameRooms, k).players[1].id) =>
               ~Reg(gameRooms', k)
     ]_vars

\* the last player has just left a room, which is gone with its timers
C9_Witness ==
  \E k \in Keys :
    /\ EventsOf(events, k, "player-left") # {}
    /\ ~Reg(gameRooms, k)
    /\ timers[k].sim = 0 /\ timers[k].cd = 0

----------------------------------------------------------------------------
\* C10: every queued input was received while a match was running (stamp 0,
\* never 2), none has stayed queued across a match start (stamp 1), and a
\* simulation tick applies only inputs received in the running match.
C10_InputGating ==
  /\ \A i \in 1..Len(gameRooms) : \A j \in 1..Len(gameRooms[i].players) :
       \A n \in 1..Len(gameRooms[i].players[j].inputs) :
         gameRooms[i].players[j].inputs[n].gen = 0
  /\ \A n \in 1..Len(trace.applied) : trace.applied[n].input.gen = 0

\* an input is still queued in a room whose match has ended
C10_Witness ==
  \E i \in 1..Len(gameRooms) :
    /\ ~gameRooms[i].matchRunning
    /\ gameRooms[i].timeLeft = 0
    /\ \E j \in 1..Len(gameRooms[i].players) : gameRooms[i].players[j].inputs # <<>>

----------------------------------------------------------------------------
(* Hits of one simulation tick, read from the game-events it emitted *)

\* the game-events of room k in evs that strike player v
HitsOn(evs, k, v) ==
  { i \in EventsOf(evs, k, "game-event") : evs[i].data.target = v }
KillsOn(evs, k, v) ==
  { i \in HitsOn(evs, k, v) : evs[i].data.type = "killed" }
KillsBy(evs, k, a) ==
  { i \in EventsOf(evs, k, "game-event") :
      evs[i].data.type = "killed" /\ evs[i].data.by = a }

PlayerOf(rm, id) == rm.players[CHOOSE i \in 1..Len(rm.players) : rm.players[i].id = id]

\* hits a player of health hp has taken since full health
Lost(hp) == (100 - hp) \div 20

\* the step is a simulation tick of room k that ran
TickStep(k) ==
  /\ Reg(gameRooms, k) /\ Reg(gameRooms', k)
  /\ EventsOf(events', k, "game-state") # {}

\* C6 as stated: the third hit since full health kills.
C6_ThreeHits ==
  [][\A k \in Keys : TickStep(k) =>
       \A v \in PlayerIds(RoomOf(gameRooms, k)) :
         LET lost == Lost(PlayerOf(RoomOf(gameRooms, k), v).hp)
             n == Cardinality(HitsOn(events', k, v))
         IN (lost < 3 /\ lost + n >= 3) => KillsOn(events', k, v) # {}
    ]_vars

\* C6, amended: in a tick each hit on a player lowers its health by 20; the
\* fifth hit since full health, and no earlier one, produces one killed event,
\* adds 1 to the kills of the bullet's owner, resets the victim's health to
\* 100 and puts the victim at the position getSafeSpawn returned.
C6_FiveHits ==
  [][\A k \in Keys : TickStep(k) =>
       /\ \A v \in PlayerIds(RoomOf(gameRooms, k)) :
            LET p == PlayerOf(RoomOf(gameRooms, k), v)
                q == PlayerOf(RoomOf(gameRooms', k), v)
                total == Lost(p.hp) + Cardinality(HitsOn(events', k, v))
                killed == KillsOn(events', k, v)
            IN /\ Cardinality(killed) = total \div 5
               /\ q.hp = 100 - 20 * (total % 5)
               /\ q.kills = p.kills + Cardinality(KillsBy(events', k, v))
               /\ killed # {} =>
                    LET last == CHOOSE i \in killed : \A j \in killed : j <= i
                    IN /\ q.x = events'[last].data.x
                       /\ q.y = events'[last].data.y
                       /\ \E d \in RespawnSamples :
                            /\ d.x = q.x /\ d.y = q.y
                            /\ getSafeSpawn(RoomOf(gameRooms, k).map, d)
    ]_vars

\* s1 has just killed s2 with the fifth hit
C6_Witness ==
  \E k \in Keys :
    /\ \E i \in KillsOn(events, k, "s2") : events[i].data.by = "s1"
    /\ Cardinality(KillsOn(events, k, "s2")) = 1
    /\ Reg(gameRooms, k)
    /\ PlayerOf(RoomOf(gameRooms, k), "s1").kills = 1
    /\ PlayerOf(RoomOf(gameRooms, k), "s2").hp = 100

----------------------------------------------------------------------------
----------------------------------------------------------------------------
\* the simulation steps that have moved bullet b once room step seq is done
Age(b, seq) == seq - b.id[2] + 1

\* the ids of a sequence of bullets
Ids(bs) == { bs[i].id : i \in 1..Len(bs) }

\* C8: a bullet that hits neither an obstacle nor a player is destroyed by the
\* 113th tick that moves it, the tick it is spawned in being the first, and
\* by no earlier one: until then it stays in the room with 2.5 - n/45 left.
C8_BulletLife ==
  /\ [](\A k \in Keys : Reg(gameRooms, k) =>
          LET rm == RoomOf(gameRooms, k)
          IN /\ \A i \in 1..Len(rm.bullets) :
                  /\ Age(rm.bullets[i], rm.seq) \in 1..112
                  /\ rm.bullets[i].life = BulletLife - DtLife * Age(rm.bullets[i], rm.seq)
             /\ EventsOf(events, k, "game-state") # {} =>
                  \A i \in 1..Len(trace.expired) :
                    /\ Age(trace.expired[i], rm.seq) = 113
                    /\ trace.expired[i].life = BulletLife - DtLife * 113)
  /\ [][\A k \in Keys : (TickStep(k) /\ EventsOf(events', k, "game-event") = {}) =>
          /\ Ids(RoomOf(gameRooms, k).bullets) \ Ids(RoomOf(gameRooms', k).bullets)
               = Ids(trace'.expired)
          /\ \A b \in Ids(RoomOf(gameRooms', k).bullets) \ Ids(RoomOf(gameRooms, k).bullets) :
               b[2] = RoomOf(gameRooms', k).seq
    ]_vars

\* a bullet fired in the first step has just expired in step 113 while a later
\* bullet is still in flight
C8_Witness ==
  \E k \in Keys :
    /\ Reg(gameRooms, k)
    /\ RoomOf(gameRooms, k).seq = 113
    /\ Len(trace.expired) >= 1
    /\ RoomOf(gameRooms, k).bullets # <<>>
    /\ EventsOf(events, k, "game-event") = {}

----------------------------------------------------------------------------
\* the room of the step is the room before it but for the ready flags
SameButReady(k) ==
  /\ Reg(gameRooms', k)
  /\ Len(RoomOf(gameRooms', k).players) = Len(RoomOf(gameRooms, k).players)
  /\ RoomOf(gameRooms', k) =
       [RoomOf(gameRooms, k) EXCEPT !.players =
          [i \in 1..Len(@) |->
             [@[i] EXCEPT !.ready = RoomOf(gameRooms', k).players[i].ready]]]

\* C2: startMatch invoked while the match is running, directly or by
\* setPlayerReady when every player is ready, and endMatch invoked while no
\* match is running, leave the room, its players, its bullets, timeLeft and
\* the timers as they were and emit no match-started and no match-ended.
C2_Idempotent ==
  [][\A k \in Keys : Reg(gameRooms, k) =>
       /\ (trace'.call = <<"startMatch", k>> /\ RoomOf(gameRooms, k).matchRunning) =>
            /\ gameRooms' = gameRooms /\ timers' = timers /\ events' = <<>>
       /\ (trace'.call = <<"endMatch", k>> /\ ~RoomOf(gameRooms, k).matchRunning) =>
            /\ gameRooms' = gameRooms /\ timers' = timers /\ events' = <<>>
       /\ ( /\ EventsOf(events', k, "player-ready-update") # {}
            /\ RoomOf(gameRooms, k).matchRunning
            /\ Reg(gameRooms', k) /\ AllReady(RoomOf(gameRooms', k)) ) =>
            /\ SameButReady(k)
            /\ timers' = timers
            /\ EventsOf(events', k, "match-started") = {}
            /\ EventsOf(events', k, "match-ended") = {}
    ]_vars

\* startMatch has just been called on a running match that has bullets in
\* flight, a wounded player and a countdown under way
C2_Witness ==
  \E k \in Keys :
    /\ trace.call = <<"startMatch", k>>
    /\ events = <<>>
    /\ Reg(gameRooms, k)
    /\ RoomOf(gameRooms, k).matchRunning
    /\ RoomOf(gameRooms, k).timeLeft < matchDuration
    /\ timers[k].cd > 0
    /\ \E i \in 1..Len(RoomOf(gameRooms, k).players) :
         RoomOf(gameRooms, k).players[i].hp < 100

----------------------------------------------------------------------------
\* the winner the rule of endMatch gives the players ps: <<>> for none
RuleWinner(ps) ==
  LET kills == { ps[i].kills : i \in 1..Len(ps) }
  IN IF ps = <<>> \/ kills = {0} THEN <<>>
     ELSE LET max == CHOOSE m \in kills : \A n \in kills : n <= m
              top == { i \in 1..Len(ps) : ps[i].kills = max }
          IN IF Cardinality(top) >= 2
             THEN << [id |-> "null", name |-> "Draw", kills |-> max] >>
             ELSE LET i == CHOOSE j \in top : TRUE
                  IN << [id |-> ps[i].id, name |-> ps[i].name, kills |-> max] >>

\* C3: the winner of a match-ended event is absent if the room has no player
\* or every player has 0 kills; it is the record {id: null, name: "Draw",
\* kills: max} if two or more players share the maximum kill count, and the
\* one player with the maximum otherwise.
C3_WinnerRule ==
  /\ Winner(<<>>) = <<>>
  /\ \A k \in Keys : \A e \in EventsOf(events, k, "match-ended") :
       /\ Reg(gameRooms, k)
       /\ events[e].data.winner = RuleWinner(RoomOf(gameRooms, k).players)
       /\ events[e].data.rankings = Rankings(RoomOf(gameRooms, k))

\* kills 5, 5 and 3 have given a draw at 5
C3_Witness ==
  \E k \in Keys : \E e \in EventsOf(events, k, "match-ended") :
    /\ events[e].data.winner = << [id |-> "null", name |-> "Draw", kills |-> 5] >>
    /\ Len(RoomOf(gameRooms, k).players) = 3
    /\ [i \in 1..3 |-> RoomOf(gameRooms, k).players[i].kills] = <<5, 5, 3>>

----------------------------------------------------------------------------
\* C11: the walls of every room's map do not overlap pairwise under the
\* strict rectangle test, they number at most 8, a constructor samples at
\* most 100 candidates, and the map of a room never changes while the room
\* is registered.
C11_ArenaWalls ==
  /\ [](\A i \in 1..Len(gameRooms) :
          LET walls == gameRooms[i].map.walls
          IN /\ Len(walls) <= 8
             /\ \A m, n \in 1..Len(walls) :
                  m # n =>
                    ~( /\ walls[m].x < walls[n].x + walls[n].w
                       /\ walls[m].x + walls[m].w > walls[n].x
                       /\ walls[m].y < walls[n].y + walls[n].h
                       /\ walls[m].y + walls[m].h > walls[n].y ))
  /\ [](trace.sampled <= 100)
  /\ [][\A k \in Keys :
          /\ (Reg(gameRooms, k) /\ Reg(gameRooms', k)) =>
               RoomOf(gameRooms', k).map = RoomOf(gameRooms, k).map
          /\ (~Reg(gameRooms, k) /\ Reg(gameRooms', k)) =>
               trace'.sampled >= Len(RoomOf(gameRooms', k).map.walls)
     ]_vars

\* a room has just been constructed with eight walls, two of them touching
\* along an edge, after a candidate that overlapped was turned down
C11_Witness ==
  \E i \in 1..Len(gameRooms) :
    LET walls == gameRooms[i].map.walls
    IN /\ Len(walls) = 8
       /\ trace.sampled > 8
       /\ \E m, n \in 1..8 : walls[m].x + walls[m].w = walls[n].x
                             /\ walls[m].y = walls[n].y

----------------------------------------------------------------------------
\* the event names a room that is not registered, or a connection that is no
\* player of the room
Stray(s, r) ==
  \/ ~Reg(gameRooms, RoomKey(r))
  \/ ~HasPlayer(RoomOf(gameRooms, RoomKey(r)), s)

\* C12: a game-leave, game-input, player-ready or request-restart event that
\* names a room not in the registry, or comes from a connection that is no
\* player of the room, leaves the registry, every room and every timer as
\* they were and emits nothing.
C12_InvalidRefs ==
  [][\A s \in MainConns, r \in TwoRooms :
       ( /\ Stray(s, r)
         /\ \/ GameLeave(s, r, {Near})
            \/ \E i \in RoomsInputs : GameInput(s, r, i)
            \/ \E b \in BOOLEAN : PlayerReady(s, r, b, {Near})
            \/ RequestRestart(s, r, {Near}) )
       => /\ gameRooms' = gameRooms
          /\ timers' = timers
          /\ events' = <<>>
    ]_vars

\* an event that changed nothing has just been handled: s1 waits alone in
\* room a, s2 is in no room and room b does not exist
C12_Witness ==
  /\ events = <<>>
  /\ Len(gameRooms) = 1
  /\ gameRooms[1].name = <<"a">>
  /\ PlayerIds(gameRooms[1]) = {"s1"}
  /\ ~gameRooms[1].matchRunning
  /\ timers[<<"b">>].sim = 0

----------------------------------------------------------------------------
\* the positions in evs of the events of room k
EventsIn(evs, k) == { i \in 1..Len(evs) : evs[i].room = k }

\* the events of room k in evs, in order
RECURSIVE EventsFor(_, _)
EventsFor(evs, k) ==
  IF evs = <<>> THEN <<>>
  ELSE IF Head(evs).room = k THEN <<Head(evs)>> \o EventsFor(Tail(evs), k)
       ELSE EventsFor(Tail(evs), k)

\* room k, its timers and the events emitted to it after the step are those
\* of the world w
SameAsIn(w, k) ==
  /\ Reg(gameRooms', k) <=> HasRoom(w, k)
  /\ Reg(gameRooms', k) => RoomOf(gameRooms', k) = RoomOf(AgeStamps(w), k)
  /\ timers'[k] = w.timers[k]
  /\ EventsFor(events', k) = EventsFor(w.events, k)

\* s is a player of room k
Occupies(s, k) == Reg(gameRooms, k) /\ HasPlayer(RoomOf(gameRooms, k), s)

\* C13: when a connection that is a player of one or more rooms disconnects,
\* it is a player of no room afterwards, each room it occupied gets exactly
\* the effect of removePlayer on that room, and every other room is
\* unchanged.
C13_Disconnect ==
  [][\A s \in MainConns :
       (Disconnect(s, {Near}) /\ \E k \in Keys : Occupies(s, k)) =>
         /\ \A i \in 1..Len(gameRooms') : ~HasPlayer(gameRooms'[i], s)
         /\ \A k \in Keys :
              IF Occupies(s, k)
              THEN /\ SameAsIn(removePlayer(World, k, s, DefaultFn({Near})), k)
                   /\ Len(RoomOf(gameRooms, k).players) = 1 =>
                        /\ ~Reg(gameRooms', k)
                        /\ timers'[k] = [sim |-> 0, cd |-> 0]
              ELSE /\ SameAsIn(World, k)
                   /\ EventsIn(events', k) = {}
    ]_vars

\* s1 has just disconnected from two rooms: the one it was alone in is gone,
\* the other has started its match with the player who stayed
C13_Witness ==
  \E k, l \in Keys :
    /\ \E i \in EventsOf(events, k, "player-left") : events[i].data = "s1"
    /\ \E i \in EventsOf(events, l, "player-left") : events[i].data = "s1"
    /\ ~Reg(gameRooms, k)
    /\ Reg(gameRooms, l)
    /\ EventsOf(events, l, "match-started") # {}
    /\ RoomOf(gameRooms, l).matchRunning

----------------------------------------------------------------------------
\* C14: right after a step in which a room goes from not running to running,
\* every player of the room has health 100, velocity (0,0), kills 0, an empty
\* input queue and ready = false, the room has no bullet, timeLeft is 65, one
\* countdown timer is live, and the step has emitted exactly one match-started
\* event, with matchDuration 65.
C14_StartReset ==
  [][\A k \in Keys : Starts(k) =>
       LET rm == RoomOf(gameRooms', k)
       IN /\ \A i \in 1..Len(rm.players) :
               /\ rm.players[i].hp = 100
               /\ rm.players[i].vx = 0 /\ rm.players[i].vy = 0
               /\ rm.players[i].kills = 0
               /\ rm.players[i].inputs = <<>>
               /\ rm.players[i].ready = FALSE
          /\ rm.bullets = <<>>
          /\ rm.timeLeft = 65
          /\ rm.timerInterval
          /\ timers'[k].cd = 1
          /\ Cardinality(EventsOf(events', k, "match-started")) = 1
          /\ \A j \in EventsOf(events', k, "match-started") :
               events'[j].data.matchDuration = 65
    ]_vars

\* a match has just started in a room that ran before: the simulation has
\* stepped, the countdown of the match before reached 0
C14_Witness ==
  \E k \in Keys :
    /\ EventsOf(events, k, "match-started") # {}
    /\ Reg(gameRooms, k)
    /\ RoomOf(gameRooms, k).matchRunning
    /\ RoomOf(gameRooms, k).seq > 0
    /\ RoomOf(gameRooms, k).timeLeft = 65
    /\ RoomOf(gameRooms, k).bullets = <<>>

----------------------------------------------------------------------------
\* the match of room k was running before the step and the room is
\* registered and not running after it
Ends(k) ==
  /\ Reg(gameRooms, k) /\ RoomOf(gameRooms, k).matchRunning
  /\ Reg(gameRooms', k) /\ ~RoomOf(gameRooms', k).matchRunning

\* C15: the step that ends a running match is a countdown step; it stops the
\* countdown timer, leaves every ready flag false, emits one match-ended with
\* the rankings and the winner, and keeps the room registered with the same
\* players. A room that is not running starts a match in the step, and only
\* in the step, after which all its players are ready.
C15_EndThenRematch ==
  [][\A k \in Keys :
       /\ Ends(k) =>
            LET rm == RoomOf(gameRooms', k)
            IN /\ EventsOf(events', k, "timer-update") # {}
               /\ ~rm.timerInterval
               /\ timers'[k].cd = 0
               /\ timers'[k].sim = 1
               /\ \A i \in 1..Len(rm.players) : ~rm.players[i].ready
               /\ [i \in 1..Len(rm.players) |-> rm.players[i].id]
                    = [i \in 1..Len(RoomOf(gameRooms, k).players) |->
                         RoomOf(gameRooms, k).players[i].id]
               /\ Cardinality(EventsOf(events', k, "match-ended")) = 1
               /\ \A j \in EventsOf(events', k, "match-ended") :
                    /\ events'[j].data.rankings = Rankings(rm)
                    /\ events'[j].data.winner = RuleWinner(rm.players)
       /\ (EventsOf(events', k, "match-ended") # {}) => Ends(k)
       /\ (Reg(gameRooms, k) /\ ~RoomOf(gameRooms, k).matchRunning) =>
            /\ ~AllReady(RoomOf(gameRooms, k))
            /\ Starts(k) <=>
                 ( /\ Reg(gameRooms', k)
                   /\ EventsOf(events', k, "player-ready-update")
                        \cup EventsOf(events', k, "player-left") # {}
                   /\ \A i \in EventsOf(events', k, "player-ready-update") :
                        /\ events'[i].data.ready
                        /\ OthersReady(RoomOf(gameRooms, k), events'[i].data.id)
                   /\ \A i \in EventsOf(events', k, "player-left") :
                        OthersReady(RoomOf(gameRooms, k), events'[i].data) )
    ]_vars

\* a match of two has just ended with a winner; both players are still in
\* the room, one of them wounded
C15_Witness ==
  \E k \in Keys : \E e \in EventsOf(events, k, "match-ended") :
    /\ Len(events[e].data.winner) = 1
    /\ Reg(gameRooms, k)
    /\ Len(RoomOf(gameRooms, k).players) = 2
    /\ ~RoomOf(gameRooms, k).matchRunning
    /\ timers[k].cd = 0
    /\ \E i \in 1..2 : RoomOf(gameRooms, k).players[i].hp < 100

----------------------------------------------------------------------------
\* C16: a simulation tick of a room whose match is not running changes no
\* room (players, queues, bullets, seq, timeLeft) and no timer and emits
\* nothing; no step taken from a room that is not running emits game-state
\* or game-event for it.
C16_IdleTick ==
  [][\A k \in Keys :
       (Reg(gameRooms, k) /\ ~RoomOf(gameRooms, k).matchRunning) =>
         /\ TickTimer(k, {Near}) =>
              /\ gameRooms' = gameRooms
              /\ timers' = timers
              /\ events' = <<>>
              /\ trace' = NoTrace
         /\ EventsOf(events', k, "game-state") = {}
         /\ EventsOf(events', k, "game-event") = {}
    ]_vars

\* nothing was emitted by the last step in a room whose match has ended with
\* a bullet in flight and an input still queued
C16_Witness ==
  \E k \in Keys :
    /\ events = <<>>
    /\ trace = NoTrace
    /\ Reg(gameRooms, k)
    /\ ~RoomOf(gameRooms, k).matchRunning
    /\ RoomOf(gameRooms, k).timeLeft = 0
    /\ RoomOf(gameRooms, k).bullets # <<>>
    /\ \E i \in 1..Len(RoomOf(gameRooms, k).players) :
         RoomOf(gameRooms, k).players[i].inputs # <<>>

----------------------------------------------------------------------------
(* SpecDrain: the last second of a match of two; both players send inputs whose
   seq does not grow with arrival, the simulation runs, the countdown ends the
   match, s2 may leave *)

DrainTicks == 2
DrainQueue == 2

DrainInputsOf ==
  [s \in MainConns |->
     IF s = "s1" THEN { Input(2, 1, 0, FALSE), Input(1, 0, 1, TRUE) }
     ELSE { Input(3, 0, 1, FALSE) }]

InitDrain ==
  \E sp \in SpawnFns(CombatSamples, {"s1", "s2"}, ArenaA) :
    /\ sp["s1"] = Near /\ sp["s2"] = Corner1
    /\ StateIs(LastSecondOfTwo(CombatRoom, ArenaA, sp, [i \in 1..2 |-> 0]))

NextDrain ==
  \/ \E s \in MainConns : \E i \in DrainInputsOf[s] :
       QueueBound(s, CombatRoom, DrainQueue) /\ GameInput(s, CombatRoom, i)
  \/ GameLeave("s2", CombatRoom, {Near})
  \/ \E k \in Keys : TickBound(k, DrainTicks) /\ TickTimer(k, {Near})
  \/ \E k \in Keys : CountdownTimer(k)

SpecDrain == InitDrain /\ [][NextDrain]_vars

\* the queued inputs of the players ps, player by player in store order, each
\* queue in arrival order
RECURSIVE Queued(_)
Queued(ps) ==
  IF ps = <<>> THEN <<>>
  ELSE [n \in 1..Len(Head(ps).inputs) |->
          [id |-> Head(ps).id, input |-> Head(ps).inputs[n]]] \o Queued(Tail(ps))

----------------------------------------------------------------------------
(* SpecHit: a match of two has just started, s2 far away. Either s1 stands
   at Gun aiming east along y = 225 at the west face of the wall
   (300, 200, 150, 50) and fires during the first steps, or s1 stood at Lane
   aiming east along y = 20, fired in the first step and the bullet has
   flown for HitFlown steps and is about to expire. Every player may
   (re-)join on the line of fire while the simulation runs *)

HitTicks == 6
HitFireUntil == 2
HitQueue == 1
HitFlown == 111

Gun == Draw(160, 225, 1)
Mid == Draw(220, 225, 1)
Close == Draw(270, 225, 1)
ByWall == Draw(280, 225, 1)
Lane == Draw(100, 20, 1)
LaneEnd == Draw(1110, 20, 1)
HitSamples == { Mid, Close, ByWall, LaneEnd }
HitConns == { "s1", "s2", "s3" }

\* s1 fired before the first simulation tick and n ticks have run since,
\* nobody else acting: the bullet has moved n times and nothing else changed
Flown(w, key, n) ==
  LET rm == Room(w, key)
      p == rm.players[PlayerIdx(rm, "s1")]
      b == spawnBullet(<<>>, p.id, p.x + CosTimes(p.a, U(20)),
                       p.y + SinTimes(p.a, U(20)), p.a, 1)[1]
  IN SetRoom(w, key,
             [rm EXCEPT !.seq = n,
                        !.players[PlayerIdx(rm, "s1")].lastInputSeq = 1,
                        !.bullets = <<[b EXCEPT !.x = @ + n * TimesDt(b.vx),
                                                !.y = @ + n * TimesDt(b.vy),
                                                !.life = @ - n * DtLife]>>])

InitHit ==
  \E sp \in SpawnFns({Gun, Lane, Corner1}, {"s1", "s2"}, ArenaA) :
    /\ sp["s2"] = Corner1
    /\ \/ /\ sp["s1"] = Gun
          /\ StateIs(MatchOfTwo(CombatRoom, ArenaA, 0, 0, sp))
       \/ /\ sp["s1"] = Lane
          /\ StateIs(Flown(Settle(MatchOfTwo(CombatRoom, ArenaA, 0, 0, sp)),
                           CombatRoom, HitFlown))

\* the room has run fewer than max simulation steps since it was started
\* or since the bullet had flown
HitWindow(key, max) ==
  HasRoom(World, key) /\
    \E n \in {0, HitFlown} : Room(World, key).seq >= n /\ Room(World, key).seq < n + max

NextHit ==
  \/ /\ FireWindow(CombatRoom, HitFireUntil)
     /\ QueueBound("s1", CombatRoom, HitQueue)
     /\ GameInput("s1", CombatRoom, Input(1, 0, 0, TRUE))
  \/ \E s \in HitConns, d \in HitSamples :
       GameJoin(s, CombatRoom, "Player", ArenaA, d, 0)
  \/ \E k \in Keys : HitWindow(k, HitTicks) /\ TickTimer(k, {Corner1})

SpecHit == InitHit /\ [][NextHit]_vars

\* the players of ps in hit range of the moved bullet b, and those of them
\* that are not its owner
InRange(ps, b) == { j \in 1..Len(ps) : InHitRadius(b, ps[j]) }
Foes(ps, b) == { j \in InRange(ps, b) : ps[j].id # b.owner }

\* p and q differ at most in kills
SameButKills(p, q) == [p EXCEPT !.kills = q.kills] = q

\* C18: a simulation tick moves every bullet once, in store order. A bullet
\* that has expired or is inside an obstacle leaves the store and changes no
\* player; any other bullet with players other than its owner in range leaves
\* the store, takes exactly 20 from the first of them in store order (who is
\* reset to 100 when that reaches 0) and changes no other player's health or
\* position; a bullet with nobody but its owner in range stays and changes
\* nobody.
C18_HitResolution ==
  [][\A k \in Keys : TickStep(k) =>
       LET rm == RoomOf(gameRooms, k)
           rm1 == RoomOf(gameRooms', k)
           recs == trace'.struck
       IN /\ Len(recs) = Len(rm.bullets) + SumFire(rm.players, 1)
          /\ recs # <<>> => recs[Len(recs)].after = rm1.players
          /\ \A n \in 1..Len(recs) :
               LET b == recs[n].b
                   bef == recs[n].before
                   aft == recs[n].after
                   foes == Foes(bef, b)
                   gone == b.life <= 0 \/ collidesWithObstacles(rm.map, b.x, b.y, U(2))
                   kept == \E i \in 1..Len(rm1.bullets) : rm1.bullets[i].id = b.id
               IN /\ n > 1 => bef = recs[n - 1].after
                  /\ Len(aft) = Len(bef)
                  /\ IF gone THEN aft = bef /\ ~kept
                     ELSE IF foes = {} THEN aft = bef /\ kept
                     ELSE LET v == CHOOSE j \in foes : \A i \in foes : j <= i
                          IN /\ ~kept
                             /\ aft[v].id = bef[v].id
                             /\ IF bef[v].hp > damage
                                THEN aft[v] = [bef[v] EXCEPT !.hp = @ - 20]
                                ELSE aft[v].hp = 100
                             /\ \A j \in 1..Len(bef) :
                                  j # v => SameButKills(aft[j], bef[j])
    ]_vars

\* a bullet of s1 has just met s1, s2 and s3 at one spot: s2, the first in
\* store order after the owner, lost 20; s1 and s3 lost nothing
C18_Witness ==
  \E k \in Keys : \E n \in 1..Len(trace.struck) :
    LET b == trace.struck[n].b
        bef == trace.struck[n].before
        aft == trace.struck[n].after
    IN /\ Reg(gameRooms, k)
       /\ b.owner = "s1"
       /\ Len(bef) = 3
       /\ InRange(bef, b) = {1, 2, 3}
       /\ bef[1].id = "s1" /\ bef[2].id = "s2" /\ bef[3].id = "s3"
       /\ aft[1].hp = bef[1].hp
       /\ aft[2].hp = bef[2].hp - 20
       /\ aft[3].hp = bef[3].hp
       /\ \A i \in 1..Len(RoomOf(gameRooms, k).bullets) :
            RoomOf(gameRooms, k).bullets[i].id # b.id

----------------------------------------------------------------------------
\* C19: every registered room has a player, and a registered room in which no
\* match is running has a player whose ready flag is false.
C19_NoStalledLobby ==
  \A i \in 1..Len(gameRooms) :
    /\ Len(gameRooms[i].players) > 0
    /\ ~gameRooms[i].matchRunning =>
         \E j \in 1..Len(gameRooms[i].players) : ~gameRooms[i].players[j].ready

\* a match of two has ended and one of the two, not the other, is ready again
C19_Witness ==
  \E i \in 1..Len(gameRooms) :
    /\ ~gameRooms[i].matchRunning
    /\ gameRooms[i].timeLeft = 0
    /\ Len(gameRooms[i].players) = 2
    /\ gameRooms[i].players[1].ready
    /\ ~gameRooms[i].players[2].ready

----------------------------------------------------------------------------
\* C20: in every state the countdown handle of a registered room is set
\* exactly when its match is running, the room has one live countdown timer
\* then and none otherwise, and a name that is not registered has none; a
\* step lowers timeLeft only by 1, as the callback of that one timer
\* (timer-update) while the match is running.
C20_CountdownTracksMatch ==
  /\ [](\A k \in Keys :
          IF Reg(gameRooms, k)
          THEN /\ RoomOf(gameRooms, k).timerInterval = RoomOf(gameRooms, k).matchRunning
               /\ timers[k].cd = IF RoomOf(gameRooms, k).matchRunning THEN 1 ELSE 0
          ELSE timers[k].cd = 0)
  /\ [][\A k \in Keys :
          (/\ Reg(gameRooms, k) /\ Reg(gameRooms', k)
           /\ RoomOf(gameRooms', k).timeLeft < RoomOf(gameRooms, k).timeLeft) =>
            /\ RoomOf(gameRooms', k).timeLeft = RoomOf(gameRooms, k).timeLeft - 1
            /\ RoomOf(gameRooms, k).matchRunning
            /\ timers[k].cd = 1
            /\ Cardinality(EventsOf(events', k, "timer-update")) = 1
     ]_vars

\* the countdown has just ended the match of a room: the handle is cleared,
\* no countdown timer is live and the simulation timer still is
C20_Witness ==
  \E k \in Keys :
    /\ Reg(gameRooms, k)
    /\ EventsOf(events, k, "match-ended") # {}
    /\ EventsOf(events, k, "timer-update") # {}
    /\ ~RoomOf(gameRooms, k).timerInterval
    /\ timers[k].cd = 0
    /\ timers[k].sim = 1

----------------------------------------------------------------------------
(* SpecFair: join, re-join, leave, ready toggles, inputs and the two timers
   of one room; a countdown timer that stays live fires again (setInterval
   calls back every second until clearInterval) *)

FairTicks == 1
FairQueue == 1

FairInputs == { Input(1, 1, 1, TRUE) }

NextFair ==
  \/ \E s \in MainConns, r \in MainRooms :
       GameJoin(s, r, "Player", ArenaA, Near, 0)
  \/ \E s \in MainConns, r \in MainRooms : GameLeave(s, r, {Near})
  \/ \E r \in MainRooms, i \in FairInputs :
       QueueBound("s1", r, FairQueue) /\ GameInput("s1", r, i)
  \/ \E s \in MainConns, r \in MainRooms, b \in BOOLEAN : PlayerReady(s, r, b, {Near})
  \/ \E k \in Keys : TickBound(k, FairTicks) /\ TickTimer(k, {Near})
  \/ \E k \in Keys : CountdownTimer(k)

\* the countdown callback of room k can fire: the guard of CountdownTimer(k)
CountdownLive(k) == timers[k].cd > 0 /\ HasRoom(World, k)

\* weak fairness of the countdown callback, WF_vars(CountdownTimer(k)), with
\* the enabling condition written as the guard of the callback
FairCountdown(k) ==
  \/ []<>(~CountdownLive(k))
  \/ []<><<CountdownTimer(k)>>_vars

SpecFair == Init /\ [][NextFair]_vars /\ \A k \in Keys : FairCountdown(k)

\* a match is running in room k
Running(k) == Reg(gameRooms, k) /\ RoomOf(gameRooms, k).matchRunning

\* C21: a running match of a room leads to the room not running or not
\* registered; the countdown of a room can fire exactly while its match is
\* running; and as long as the match runs, no step raises timeLeft and every
\* firing of the countdown lowers it by 1.
C21_MatchTerminates ==
  /\ \A k \in Keys : Running(k) ~> ~Running(k)
  /\ [](\A k \in Keys : CountdownLive(k) <=> Running(k))
  /\ [][\A k \in Keys : (Running(k) /\ Running(k)') =>
          /\ RoomOf(gameRooms', k).timeLeft <= RoomOf(gameRooms, k).timeLeft
          /\ CountdownTimer(k) =>
               RoomOf(gameRooms', k).timeLeft = RoomOf(gameRooms, k).timeLeft - 1
     ]_vars

\* the countdown has just ended a match of two during which the simulation
\* ran, an input was applied and a player set its ready flag
C21_Witness ==
  \E k \in Keys :
    /\ Reg(gameRooms, k)
    /\ EventsOf(events, k, "match-ended") # {}
    /\ RoomOf(gameRooms, k).timeLeft = 0
    /\ RoomOf(gameRooms, k).seq > 0
    /\ Len(RoomOf(gameRooms, k).players) = 2
    /\ \E i \in 1..2 : RoomOf(gameRooms, k).players[i].lastInputSeq > 0

====
